---- MODULE Spec2Model ----
(***************************************************************************)
(* A model of the nero P10 link daemon: the protocol engine of p10.rs, the *)
(* network state store and hook dispatcher of core_data.rs and the         *)
(* read/process/write loop of net.rs.                                      *)
(*                                                                         *)
(* Byte strings (Vec<u8>, String) are sequences of one-character strings.  *)
(* All bytes of the modelled inputs are ASCII.  A bitflags value (u64) is  *)
(* the set of its set bit positions: | is \cup, & is \cap, "& flag > 0"    *)
(* is a non-empty intersection.  An Rc<RefCell<Server>> is the index of    *)
(* the server in core_data.servers (the list is append-only), an           *)
(* Rc<RefCell<Channel>> the index in core_data.channels (append-only), an  *)
(* Rc<RefCell<User>> an index into the allocation table `heap`.            *)
(***************************************************************************)
EXTENDS Integers, Sequences, FiniteSets, TLC

\* ------------------------------------------------------------------ bounds
\* number of inbound lines read from the uplink in one run
MaxLines == 4
\* number of plugins named by the configuration file
MaxPlugins == 1
\* largest wall-clock reading (epoch_int) the environment supplies
MaxClock == 2

\* ------------------------------------------------------------- generic
None == [some |-> FALSE, v |-> <<>>]
Some(x) == [some |-> TRUE, v |-> x]

Last(s) == s[Len(s)]
Front(s) == SubSeq(s, 1, Len(s) - 1)

RECURSIVE Flatten(_)
Flatten(ss) == IF ss = <<>> THEN <<>> ELSE Head(ss) \o Flatten(Tail(ss))

\* position of the first TRUE of a sequence of booleans, 0 when there is
\* none: the "for x in list { if test(x) { return x } }" search
FirstTrue(hits) ==
    IF \E i \in 1..Len(hits) : hits[i]
    THEN CHOOSE i \in 1..Len(hits) : hits[i] /\ \A j \in 1..(i - 1) : ~hits[j]
    ELSE 0

RemoveAt(s, i) == SubSeq(s, 1, i - 1) \o SubSeq(s, i + 1, Len(s))

Contains(s, x) == \E i \in 1..Len(s) : s[i] = x

\* ---------------------------------------------------------- characters
DigitChars == <<"0", "1", "2", "3", "4", "5", "6", "7", "8", "9">>
UpperChars == <<"A", "B", "C", "D", "E", "F", "G", "H", "I", "J", "K", "L", "M",
                "N", "O", "P", "Q", "R", "S", "T", "U", "V", "W", "X", "Y", "Z">>
LowerChars == <<"a", "b", "c", "d", "e", "f", "g", "h", "i", "j", "k", "l", "m",
                "n", "o", "p", "q", "r", "s", "t", "u", "v", "w", "x", "y", "z">>

IsDigit(c) == \E i \in 1..10 : DigitChars[i] = c
DigitVal(c) == (CHOOSE i \in 1..10 : DigitChars[i] = c) - 1

\* u8::make_ascii_lowercase
make_ascii_lowercase(c) ==
    IF \E i \in 1..26 : UpperChars[i] = c
    THEN LowerChars[CHOOSE i \in 1..26 : UpperChars[i] = c]
    ELSE c

\* format!("{}", n) for an unsigned integer
RECURSIVE FormatInt(_)
FormatInt(n) ==
    IF n < 10 THEN <<DigitChars[n + 1]>>
    ELSE FormatInt(n \div 10) \o <<DigitChars[(n % 10) + 1]>>

RECURSIVE DigitsValue(_, _)
DigitsValue(s, acc) ==
    IF s = <<>> THEN acc ELSE DigitsValue(Tail(s), acc * 10 + DigitVal(Head(s)))

\* str::parse::<u64>(): an optional leading '+', then one or more decimal
\* digits give Ok(value) (Some); anything else is Err (None).  The modelled
\* tokens have at most three digits, so the overflow error cannot occur.
ParseU64(s) ==
    LET body == IF Len(s) > 0 /\ s[1] = "+" THEN Tail(s) ELSE s
    IN  IF body = <<>> \/ \E i \in 1..Len(body) : ~IsDigit(body[i])
        THEN None
        ELSE Some(DigitsValue(body, 0))

\* the "match parse() { Ok(i) => i, Err(_) => dflt }" idiom of p10.rs
ParseOr(s, dflt) == IF ParseU64(s).some THEN ParseU64(s).v ELSE dflt

\* str::parse::<i8>() for BaseServer.hops, with Err mapped to 0 as at the
\* call site: like u64 with an optional '-' and the range -128..127
ParseHops(s) ==
    LET neg  == Len(s) > 0 /\ s[1] = "-"
        body == IF neg THEN Tail(s) ELSE s
        r    == ParseU64(body)
    IN  IF ~r.some \/ (neg /\ body[1] = "+") THEN 0
        ELSE IF neg THEN (IF r.v > 128 THEN 0 ELSE 0 - r.v)
        ELSE IF r.v > 127 THEN 0 ELSE r.v

\* ------------------------------------------------------------- utils.rs
RECURSIVE split_string_loop(_, _, _, _)
split_string_loop(input, index, tmp, buf) ==
    IF index > Len(input) THEN buf
    ELSE IF input[index] = " "
         THEN split_string_loop(input, index + 1, <<>>, Append(buf, tmp))
         ELSE IF index = Len(input)
              THEN Append(buf, Append(tmp, input[index]))
              ELSE split_string_loop(input, index + 1, Append(tmp, input[index]), buf)

split_string(input) == split_string_loop(input, 1, <<>>, <<>>)

\* argv is 0-based in the source: argv[i] is argv[i + 1] here
unsplit_string(argv, argc, startidx, max) ==
    LET vec == SubSeq(argv, startidx + 1, argc)
    IN  IF max > Len(vec) THEN <<>>
        ELSE Flatten([i \in 1..max |-> Append(vec[i], " ")])

u8_slice_to_lower(input) == [i \in 1..Len(input) |-> make_ascii_lowercase(input[i])]

RECURSIVE trim_bytes_right(_)
trim_bytes_right(input) ==
    IF Len(input) > 0 /\ Last(input) \in {"\r", "\n"}
    THEN trim_bytes_right(Front(input))
    ELSE input

\* assert!(left > 0) is the caller's obligation; see p10_irc_textmessage
ceiling_division(left, right) == 1 + ((left - 1) \div right)

CONVERT2Y == UpperChars \o LowerChars \o DigitChars \o <<"[", "]">>

RECURSIVE inttobase64_loop(_, _, _)
inttobase64_loop(v, count, buf) ==
    IF count = 0 THEN buf
    ELSE inttobase64_loop(v \div 64, count - 1, <<CONVERT2Y[(v % 64) + 1]>> \o buf)

inttobase64(v, count) == inttobase64_loop(v, count, <<>>)

\* ------------------------------------------------------------ split_line
RECURSIVE SkipSpaces(_, _)
SkipSpaces(line, ii) ==
    IF ii <= Len(line) /\ line[ii] = " " THEN SkipSpaces(line, ii + 1) ELSE ii

RECURSIVE SkipWord(_, _)
SkipWord(line, ii) ==
    IF ii <= Len(line) /\ line[ii] # " " THEN SkipWord(line, ii + 1) ELSE ii

\* ii0 is the 1-based position of the next unread byte; argc is Len(argv)
RECURSIVE split_line_loop(_, _, _, _, _)
split_line_loop(line, irc_colon, argv_size, ii0, argv) ==
    IF ~(ii0 <= Len(line) /\ Len(argv) < argv_size) THEN argv
    ELSE LET ii == SkipSpaces(line, ii0) IN
         IF ii > Len(line) THEN argv
         ELSE IF line[ii] = ":" /\ irc_colon /\ Len(argv) > 0
              THEN IF Len(line) > ii
                   THEN Append(argv, SubSeq(line, ii + 1, Len(line)))
                   ELSE argv
              ELSE LET kk    == SkipWord(line, ii)
                       buf   == SubSeq(line, ii, kk - 1)
                       argv2 == IF Len(buf) > 0 THEN Append(argv, buf) ELSE argv
                   IN  IF Len(argv2) >= argv_size THEN argv2
                       ELSE split_line_loop(line, irc_colon, argv_size, kk, argv2)

\* split_line that takes no colon for the start of a trailing argument
split_line_no_trailing(line, irc_colon, argv_size) ==
    split_line_loop(line, FALSE, argv_size, 1, <<>>)

split_line(line, irc_colon, argv_size) ==
    split_line_loop(line, irc_colon, argv_size, 1, <<>>)

\* ------------------------------------------------------------ mode bits
\* bitflags! P10UserModes
UMODE_OPER        == {0}
UMODE_INVISIBLE   == {1}
UMODE_WALLOP      == {2}
UMODE_DEAF        == {3}
UMODE_SERVICE     == {4}
UMODE_GLOBAL      == {5}
UMODE_NOCHAN      == {6}
UMODE_NOIDLE      == {7}
UMODE_HIDDEN_HOST == {8}
UMODE_STAMPED     == {9}

\* bitflags! P10ChannelModes
CMODE_PRIVATE    == {0}
CMODE_SECRET     == {1}
CMODE_MODERATED  == {2}
CMODE_TOPICLIMIT == {3}
CMODE_INVITEONLY == {4}
CMODE_NOPRIVMSGS == {5}
CMODE_KEY        == {6}
CMODE_BAN        == {7}
CMODE_LIMIT      == {8}
CMODE_DELAYJOINS == {9}
CMODE_REGONLY    == {10}
CMODE_NOCOLORS   == {11}
CMODE_NOCTCPS    == {12}
CMODE_REGISTERED == {13}
CMODE_APASS      == {14}
CMODE_UPASS      == {15}

\* bitflags! P10MemberModes
MMODE_CHANOP == {0}
MMODE_VOICE  == {1}
MMODE_HIDDEN == {2}

\* ----------------------------------------------------------- the records
\* Server::new with P10ServExt::new.  glines is never written (GL is
\* accepted and ignored) and is left out.
Server(hostname, description) ==
    [hostname |-> hostname, description |-> description,
     hops |-> 0, boot |-> 0, link_time |-> 0,
     uplink |-> 0, children |-> <<>>, users |-> <<>>,
     numeric |-> <<>>, self_burst |-> TRUE, numeric_accum |-> 0]

BaseServer(server) ==
    [hostname |-> server.hostname, description |-> server.description,
     hops |-> server.hops, boot |-> server.boot, link_time |-> server.link_time]

\* User::new with P10UserExt::new.  The decoded ip and the away message are
\* write-only in this core and are left out; User.channels is never filled.
User(nick, ident, hostname, uplink) ==
    [nick |-> nick, ident |-> ident, host |-> hostname, gecos |-> <<>>,
     modes |-> {}, account |-> <<>>, uplink |-> uplink,
     numeric |-> <<>>, fakeident |-> <<>>, fakehost |-> <<>>, timestamp |-> 0]

\* Channel::new with P10ChannelExt::new
Channel(name, created) ==
    [name |-> name, topic |-> <<>>, topic_nick |-> <<>>, topic_time |-> 0,
     created |-> created, modes |-> {}, limit |-> 0, key |-> None,
     bans |-> <<>>, members |-> <<>>,
     delayed_join |-> FALSE, upass |-> None, apass |-> None]

\* ChannelMember::new with P10MemberExt::new; user is the Rc of the user
ChannelMember(user) == [user |-> user, modes |-> {}, idle |-> 0, oplevel |-> 0]

HookData(hook_type) ==
    [hook_type |-> hook_type, server |-> None,
     origin |-> <<>>, target |-> <<>>, message |-> <<>>]

\* ------------------------------------------------- configuration, plugins
\* etc/nero.toml, [uplink]
Config ==
    [hostname |-> <<"m">>, description |-> <<"M">>,
     send_pass |-> <<"s">>, recv_pass |-> <<"r">>,
     numeric |-> <<"A", "B">>]

\* What a plugin hands to the core: register_hooks() and register_bots().
\* A hook function is plugin code; f names what it does with the PluginApi:
\* "fail" returns Err(HookError), "reply" looks its bot up by nick and, if it
\* is found, sends one PRIVMSG to the event's target and returns Ok.  The
\* second plugin is a shared object that cannot be loaded.
BotNick == <<"x">>
PluginCatalogue ==
    << [loads |-> TRUE,
        hooks |-> << [event_type |-> "UserConnected", f |-> "reply"],
                     [event_type |-> "UserQuit", f |-> "fail"],
                     [event_type |-> "UserQuit", f |-> "reply"],
                     [event_type |-> "PrivmsgChan", f |-> "reply"] >>,
        bots  |-> << [nick |-> BotNick, ident |-> <<"i">>, hostname |-> <<"h">>,
                      gecos |-> <<"g">>,
                      channels |-> << [name |-> <<"#", "c">>,
                                       chanmodes |-> <<"+", "n">>,
                                       umodes |-> <<"o">>] >>] >>],
       [loads |-> FALSE, hooks |-> <<>>, bots |-> <<>>] >>

\* the [[plugins]] lists the configuration file may hold: up to MaxPlugins
\* different entries of the catalogue, in any order
PluginLists ==
    { ps \in UNION { [1..n -> 1..Len(PluginCatalogue)] : n \in 0..MaxPlugins } :
        \A i, j \in 1..Len(ps) : i # j => ps[i] # ps[j] }

\* ------------------------------------------------------ NeroData (core_data)
\* NeroData::new followed by NeroData::setup.  `me` is servers[1] for the
\* whole run.  heap holds every User ever allocated; panic is set when the
\* running call has panicked; fired lists the hook functions the running
\* call has invoked.
MeIndex == 1
NeroData_new ==
    [state |-> "Connecting", now |-> 0, uplink |-> 0,
     channels |-> <<>>, unbursted_channels |-> <<>>,
     servers |-> << [Server(Config.hostname, Config.description)
                        EXCEPT !.numeric = Config.numeric] >>,
     users |-> <<>>, heap |-> <<>>,
     plugins |-> <<>>, events |-> <<>>,
     write_buffer |-> <<>>,
     panic |-> FALSE, fired |-> <<>>]

Panic(cd) == [cd EXCEPT !.panic = TRUE]
Ok(cd) == [cd |-> cd, ok |-> TRUE]
Err(cd) == [cd |-> cd, ok |-> FALSE]

add_to_buffer(cd, data) == [cd EXCEPT !.write_buffer = Append(@, data)]

\* --------------------------------------------------------------- lookups
\* each returns the Rc found (an index), 0 for None
find_channel(cd, name) ==
    LET lower == u8_slice_to_lower(name)
    IN  FirstTrue([i \in 1..Len(cd.channels) |-> cd.channels[i].name = lower])

find_server_numeric(cd, numeric) ==
    FirstTrue([i \in 1..Len(cd.servers) |-> cd.servers[i].numeric = numeric])

\* the result is [panic, server]: assert!(lookup_numeric.len() == 2) fails
\* for a numeric shorter than two bytes
find_server_from_user(cd, numeric) ==
    LET lookup_numeric == IF Len(numeric) > 2 THEN SubSeq(numeric, 1, 2) ELSE numeric
    IN  [panic |-> Len(lookup_numeric) # 2,
         server |-> FirstTrue([i \in 1..Len(cd.servers) |->
                                  cd.servers[i].numeric = lookup_numeric])]

\* position in cd.users of the first user with this numeric, 0 for None
find_user_numeric_pos(cd, numeric) ==
    FirstTrue([i \in 1..Len(cd.users) |-> cd.heap[cd.users[i]].numeric = numeric])

find_user_numeric(cd, numeric) ==
    IF find_user_numeric_pos(cd, numeric) = 0 THEN 0
    ELSE cd.users[find_user_numeric_pos(cd, numeric)]

find_user_nick(cd, nick) ==
    LET pos == FirstTrue([i \in 1..Len(cd.users) |-> cd.heap[cd.users[i]].nick = nick])
    IN  IF pos = 0 THEN 0 ELSE cd.users[pos]

\* PluginApi::get_user_by_nick, get_user_by_numeric (P10::find_user_by_numeric)
get_user_by_nick(cd, nick) ==
    LET pos == FirstTrue([i \in 1..Len(cd.users) |-> cd.heap[cd.users[i]].nick = nick])
    IN  IF pos = 0 THEN None ELSE Some(cd.heap[cd.users[pos]])

find_user_by_numeric(cd, numeric) ==
    LET pos == find_user_numeric_pos(cd, numeric)
    IN  IF pos = 0 THEN None ELSE Some(cd.heap[cd.users[pos]])

\* ------------------------------------------------------------ user modes
p10_set_user_mode_helper(modes, adding, flag) ==
    IF adding THEN modes \cup flag ELSE modes \cap flag

UserModeFlag(mode) ==
    CASE mode = "o" -> UMODE_OPER
      [] mode = "i" -> UMODE_INVISIBLE
      [] mode = "w" -> UMODE_WALLOP
      [] mode = "d" -> UMODE_DEAF
      [] mode = "k" -> UMODE_SERVICE
      [] mode = "g" -> UMODE_GLOBAL
      [] mode = "n" -> UMODE_NOCHAN
      [] mode = "I" -> UMODE_NOIDLE
      [] mode = "x" -> UMODE_HIDDEN_HOST
      [] OTHER -> {}

RECURSIVE SkipTag(_, _)
SkipTag(modes, ii) ==
    IF ii <= Len(modes) /\ modes[ii] # " " /\ modes[ii] # ":"
    THEN SkipTag(modes, ii + 1) ELSE ii

\* the mask of +h split at its first '@': [front, back]
SplitMask(mask) ==
    LET at == FirstTrue([i \in 1..Len(mask) |-> mask[i] = "@"])
    IN  IF at = 0 THEN [front |-> mask, back |-> <<>>]
        ELSE [front |-> SubSeq(mask, 1, at - 1), back |-> SubSeq(mask, at + 1, Len(mask))]

\* the "for mode in modes" loop: idx is the position of the mode letter, wp
\* the position wordptr points at (both 1-based).  Result [panic, user].
RECURSIVE p10_set_user_modes_loop(_, _, _, _, _)
p10_set_user_modes_loop(user, modes, idx, adding, wp) ==
    IF idx > Len(modes) \/ modes[idx] = " " THEN [panic |-> FALSE, user |-> user]
    ELSE LET mode == modes[idx] IN
      CASE mode = "+" -> p10_set_user_modes_loop(user, modes, idx + 1, TRUE, wp)
        [] mode = "-" -> p10_set_user_modes_loop(user, modes, idx + 1, FALSE, wp)
        [] mode = "r" ->
             IF wp > 1
             THEN LET te  == SkipTag(modes, wp)
                      tag == SubSeq(modes, wp, te - 1)
                  IN  IF te > Len(modes) THEN [panic |-> TRUE, user |-> user]
                      ELSE LET wp2 == IF modes[te] = ":" THEN te + 1 ELSE te
                               wp3 == SkipSpaces(modes, wp2)
                               u2  == [user EXCEPT
                                         !.modes = p10_set_user_mode_helper(@, adding, UMODE_STAMPED),
                                         !.account = tag]
                           IN  p10_set_user_modes_loop(u2, modes, idx + 1, adding, wp3)
             ELSE p10_set_user_modes_loop(user, modes, idx + 1, adding, wp)
        [] mode = "h" ->
             IF wp > 1
             THEN LET me   == SkipWord(modes, wp)
                      mask == SplitMask(SubSeq(modes, wp, me - 1))
                      wp2  == SkipSpaces(modes, me)
                      u2   == IF Len(mask.back) > 0
                              THEN [user EXCEPT !.fakeident = mask.front, !.fakehost = mask.back]
                              ELSE [user EXCEPT !.fakehost = mask.front]
                  IN  p10_set_user_modes_loop(u2, modes, idx + 1, adding, wp2)
             ELSE p10_set_user_modes_loop(user, modes, idx + 1, adding, wp)
        [] mode \in {"o", "i", "w", "d", "k", "g", "n", "I", "x"} ->
             p10_set_user_modes_loop(
                 [user EXCEPT !.modes = p10_set_user_mode_helper(@, adding, UserModeFlag(mode))],
                 modes, idx + 1, adding, wp)
        [] OTHER -> p10_set_user_modes_loop(user, modes, idx + 1, adding, wp)

p10_set_user_modes(user, modes) ==
    p10_set_user_modes_loop(user, modes, 1, TRUE, SkipSpaces(modes, SkipWord(modes, 1)))

\* --------------------------------------------------------- channel modes
P10_CHANNEL_MODES ==
    <<"p", "s", "m", "t", "i", "n", "k", "b", "l", "D", "r", "c", "C", "z", "A", "u">>

p10_set_channel_mode_helper(modes, adding, flag) ==
    IF adding THEN modes \cup flag ELSE modes \cap flag

\* p10_channel_has_mode answering yes whatever the channel's modes are
p10_channel_has_mode_any(channel, flag) == TRUE

p10_channel_has_mode(channel, flag) == channel.modes \cap flag # {}

p10_add_channel_mode(channel, adding, mode) ==
    LET flag ==
          CASE mode = "p" -> CMODE_PRIVATE    [] mode = "s" -> CMODE_SECRET
            [] mode = "m" -> CMODE_MODERATED  [] mode = "t" -> CMODE_TOPICLIMIT
            [] mode = "i" -> CMODE_INVITEONLY [] mode = "n" -> CMODE_NOPRIVMSGS
            [] mode = "k" -> CMODE_KEY        [] mode = "b" -> CMODE_BAN
            [] mode = "l" -> CMODE_LIMIT      [] mode = "D" -> CMODE_DELAYJOINS
            [] mode = "r" -> CMODE_REGONLY    [] mode = "c" -> CMODE_NOCOLORS
            [] mode = "C" -> CMODE_NOCTCPS    [] mode = "z" -> CMODE_REGISTERED
            [] mode = "A" -> CMODE_APASS      [] mode = "U" -> CMODE_UPASS
            [] OTHER -> {}
    IN  IF flag = {} THEN channel
        ELSE [channel EXCEPT !.modes = p10_set_channel_mode_helper(@, adding, flag)]

RECURSIVE AddModeLetters(_, _, _)
AddModeLetters(channel, word, jj) ==
    IF jj > Len(word) THEN channel
    ELSE AddModeLetters(p10_add_channel_mode(channel, TRUE, word[jj]), word, jj + 1)

\* the "for ii in 1..split_modes.len()" loop with the can_set_setmodes
\* closure; found is found_modes.  Result [panic, channel].
RECURSIVE SetModeArgs(_, _, _, _)
SetModeArgs(channel, split_modes, ii, found) ==
    IF ii > Len(split_modes) THEN [panic |-> FALSE, channel |-> channel]
    ELSE LET can(flag) == p10_channel_has_mode(channel, flag) /\ found \cap flag = {}
             arg == split_modes[ii]
         IN  IF can(CMODE_LIMIT)
             THEN IF ParseU64(arg).some
                  THEN SetModeArgs([channel EXCEPT !.limit = ParseU64(arg).v],
                                   split_modes, ii + 1, found \cup CMODE_LIMIT)
                  ELSE [panic |-> TRUE, channel |-> channel]
             ELSE IF can(CMODE_KEY)
             THEN SetModeArgs([channel EXCEPT !.key = Some(arg)],
                              split_modes, ii + 1, found \cup CMODE_KEY)
             ELSE IF can(CMODE_UPASS)
             THEN SetModeArgs([channel EXCEPT !.upass = Some(arg)],
                              split_modes, ii + 1, found \cup CMODE_UPASS)
             ELSE IF can(CMODE_APASS)
             THEN SetModeArgs([channel EXCEPT !.apass = Some(arg)],
                              split_modes, ii + 1, found \cup CMODE_APASS)
             ELSE SetModeArgs(channel, split_modes, ii + 1, found)

p10_set_channel_modes(channel, mode_list) ==
    LET split_modes == split_string(mode_list)
    IN  IF Len(split_modes) > 0
        THEN SetModeArgs(AddModeLetters(channel, split_modes[1], 2), split_modes, 2, {})
        ELSE [panic |-> FALSE, channel |-> channel]

p10_ban_channel_user(channel, adding, ban) ==
    IF adding THEN [channel EXCEPT !.bans = Append(@, ban)]
    ELSE LET e == FirstTrue([i \in 1..Len(channel.bans) |-> channel.bans[i] = ban])
         IN  IF e = 0 THEN channel ELSE [channel EXCEPT !.bans = RemoveAt(@, e)]

p10_set_channel_bans(channel, ban_list) ==
    [channel EXCEPT !.bans = @ \o split_string(ban_list)]

\* ------------------------------------------------------- users, channels
\* Result [panic, ok, cd, user].  base64_to_vecu8(realip) only fills the ip
\* field, which the model leaves out; every modelled N line carries "_",
\* for which the function returns before it touches the base64 library.
\* p10_add_user without the push to the user list of the uplink server
p10_add_user_unfiled(cd, option_uplink, nick, ident, hostname, modes, numeric, gecos, timestamp, realip) ==
    IF Len(numeric) < 3 \/ Len(numeric) > 5 \/ option_uplink = 0
    THEN [panic |-> FALSE, ok |-> FALSE, cd |-> cd, user |-> 0]
    ELSE LET node == [User(nick, ident, hostname, option_uplink) EXCEPT
                        !.gecos = gecos, !.numeric = numeric,
                        !.timestamp = ParseOr(timestamp, 0)]
             r    == p10_set_user_modes(node, modes)
         IN  IF r.panic THEN [panic |-> TRUE, ok |-> FALSE, cd |-> cd, user |-> 0]
             ELSE [panic |-> FALSE, ok |-> TRUE, user |-> Len(cd.heap) + 1,
                   cd |-> [cd EXCEPT !.heap = Append(@, r.user),
                                     !.users = Append(@, Len(cd.heap) + 1)]]

p10_add_user(cd, option_uplink, nick, ident, hostname, modes, numeric, gecos, timestamp, realip) ==
    IF Len(numeric) < 3 \/ Len(numeric) > 5
    THEN [panic |-> FALSE, ok |-> FALSE, cd |-> cd, user |-> 0]
    ELSE IF option_uplink = 0
    THEN [panic |-> FALSE, ok |-> FALSE, cd |-> cd, user |-> 0]
    ELSE LET uplink == option_uplink
             node   == [User(nick, ident, hostname, uplink) EXCEPT
                          !.gecos = gecos, !.numeric = numeric,
                          !.timestamp = ParseOr(timestamp, 0)]
             r      == p10_set_user_modes(node, modes)
             id     == Len(cd.heap) + 1
         IN  IF r.panic THEN [panic |-> TRUE, ok |-> FALSE, cd |-> cd, user |-> 0]
             ELSE [panic |-> FALSE, ok |-> TRUE, user |-> id,
                   cd |-> [cd EXCEPT !.heap = Append(@, r.user),
                                     !.servers[uplink].users = Append(@, id),
                                     !.users = Append(@, id)]]

\* Result [panic, ok, cd].  Both search loops panic when nothing matches,
\* and Vec::remove(0) panics when the list is empty.
p10_del_user(cd, numeric) ==
    IF Len(numeric) < 3 \/ Len(numeric) > 5
    THEN [panic |-> FALSE, ok |-> FALSE, cd |-> cd]
    ELSE LET idx == find_user_numeric_pos(cd, numeric)
             fs  == find_server_from_user(cd, numeric)
             susers == cd.servers[fs.server].users
             sidx == IF fs.server = 0 THEN 0
                     ELSE FirstTrue([i \in 1..Len(susers) |->
                                       cd.heap[susers[i]].numeric = numeric])
         IN  IF idx = 0 \/ fs.panic \/ fs.server = 0 \/ sidx = 0
             THEN [panic |-> TRUE, ok |-> FALSE, cd |-> cd]
             ELSE [panic |-> FALSE, ok |-> TRUE,
                   cd |-> [cd EXCEPT !.users = RemoveAt(@, idx),
                                     !.servers[fs.server].users = RemoveAt(@, sidx)]]

\* Result [ok, cd, member]: member is the position of the new record in the
\* channel's member list
p10_add_channel_member(cd, channel, userbuf) ==
    LET user == find_user_numeric(cd, userbuf)
        c    == cd.channels[channel]
        first == Len(c.members) = 0 /\ c.modes \cap CMODE_REGISTERED = {}
                                    /\ c.modes \cap CMODE_APASS = {}
        member == [ChannelMember(user) EXCEPT
                     !.idle = cd.now,
                     !.modes = IF first THEN MMODE_CHANOP ELSE {}]
    IN  IF user = 0 THEN [ok |-> FALSE, cd |-> cd, member |-> 0]
        ELSE [ok |-> TRUE, member |-> Len(c.members) + 1,
              cd |-> [cd EXCEPT !.channels[channel].members = Append(@, member)]]

\* Result [panic, cd, channel]; the Option returned is always Some
p10_add_channel(cd, name, created_time, mode_list, ban_list) ==
    LET current == find_channel(cd, name)
        r == p10_set_channel_modes(Channel(name, created_time), mode_list)
    IN  IF current # 0
        THEN [panic |-> FALSE, channel |-> current,
              cd |-> IF cd.channels[current].created > created_time
                     THEN [cd EXCEPT !.channels[current].created = created_time,
                                     !.channels[current].topic_time = 0,
                                     !.channels[current].topic = <<>>]
                     ELSE cd]
        ELSE IF r.panic THEN [panic |-> TRUE, channel |-> 0, cd |-> cd]
        ELSE [panic |-> FALSE, channel |-> Len(cd.channels) + 1,
              cd |-> [cd EXCEPT !.channels =
                         Append(@, p10_set_channel_bans(r.channel, ban_list))]]

\* p10_set_channel_topic that does not note who set the topic
p10_set_channel_topic_anonymous(cd, channel, user, topic) ==
    [cd EXCEPT !.channels[channel].topic = topic,
               !.channels[channel].topic_time = cd.now]

p10_set_channel_topic(cd, channel, user, topic) ==
    [cd EXCEPT !.channels[channel].topic = topic,
               !.channels[channel].topic_time = cd.now,
               !.channels[channel].topic_nick =
                    IF user # 0 THEN cd.heap[user].nick ELSE @]

\* get_next_numeric that hands the numnick out and leaves the counter alone
get_next_numeric_stuck(cd) ==
    [numeric |-> cd.servers[MeIndex].numeric
                   \o inttobase64(cd.servers[MeIndex].numeric_accum, 3),
     cd |-> IF Len(cd.servers[MeIndex].numeric) > 0 THEN cd ELSE Panic(cd)]

\* [numeric, cd]: the numnick handed out and the store with the counter moved
get_next_numeric(cd) ==
    LET local_numeric == cd.servers[MeIndex].numeric
        numnick == inttobase64(cd.servers[MeIndex].numeric_accum, 3)
    IN  [numeric |-> local_numeric \o numnick,
         cd |-> IF Len(local_numeric) > 0
                THEN [cd EXCEPT !.servers[MeIndex].numeric_accum = @ + 1]
                ELSE Panic(cd)]

\* ------------------------------------------------------ IRC line builders
Sp == <<" ">>

p10_get_numeric(cd) == Config.numeric

p10_irc_user(numeric, now, user) ==
    numeric \o <<" ", "N", " ">> \o user.nick \o <<" ", "1", " ">> \o FormatInt(now)
      \o Sp \o user.ident \o Sp \o user.host \o <<" ", "+", "i", "o", "k", " ", "_", " ">>
      \o user.numeric \o <<" ", ":">> \o user.gecos

p10_irc_eob(cd) == p10_get_numeric(cd) \o <<" ", "E", "B">>

p10_irc_eob_ack(cd) == p10_get_numeric(cd) \o <<" ", "E", "A">>

p10_irc_pong_asll(cd, who, orig_ts) ==
    p10_get_numeric(cd) \o <<" ", "Z", " ">> \o who \o Sp \o orig_ts
      \o <<" ", "0", " ">> \o orig_ts

\* the chunk loop; &message[begin..end] panics when end is past the end of
\* the message or begin is past end (begin, end are 0-based as in the source)
RECURSIVE p10_irc_textmessage_loop(_, _, _, _, _)
p10_irc_textmessage_loop(cd, prefix, message, ii, message_count) ==
    IF ii >= message_count THEN cd
    ELSE LET begin == ii * 500
             end   == IF (ii + 1) * 500 > Len(message)
                      THEN Len(message) + (ii * 500)
                      ELSE (ii + 1) * 500
         IN  IF end > Len(message) \/ begin > end THEN Panic(cd)
             ELSE p10_irc_textmessage_loop(
                      add_to_buffer(cd, prefix \o SubSeq(message, begin + 1, end)),
                      prefix, message, ii + 1, message_count)

p10_irc_textmessage(cd, source, target, message, cmd) ==
    LET prefix == source \o Sp \o <<cmd>> \o Sp \o target \o <<" ", ":">>
    IN  p10_irc_textmessage_loop(cd, prefix, message, 0,
            ceiling_division(Len(message) + Len(prefix), 500))

p10_irc_privmsg(cd, source, target, message) ==
    p10_irc_textmessage(cd, source, target, message, "P")

p10_irc_notice(cd, source, target, message) ==
    p10_irc_textmessage(cd, source, target, message, "O")

\* source is a BaseUser (a copy of the user's fields)
send_textmessage(cd, source, target, message, is_privmsg) ==
    LET u == find_user_nick(cd, source.nick)
        t == find_user_nick(cd, target)
        send_target == IF t # 0 THEN cd.heap[t].numeric ELSE target
    IN  IF u = 0 THEN cd
        ELSE IF cd.heap[u].numeric = <<>> THEN Panic(cd)
        ELSE IF is_privmsg THEN p10_irc_privmsg(cd, cd.heap[u].numeric, send_target, message)
        ELSE p10_irc_notice(cd, cd.heap[u].numeric, send_target, message)

send_privmsg_raw_target(cd, source, target, message) ==
    send_textmessage(cd, source, target, message, TRUE)

\* ------------------------------------------------------------------ hooks
\* what the hook function named f does when the core calls it
CallHook(cd, f, hook_data) ==
    IF f = "reply"
    THEN LET bot == get_user_by_nick(cd, BotNick)
         IN  IF bot.some
             THEN send_privmsg_raw_target(cd, bot.v, hook_data.target, <<"h", "i">>)
             ELSE cd
    ELSE cd

\* events and plugins are swapped out while the hooks run and put back
\* afterwards; no PluginApi call reads them, so they are left in place here.
\* A hook whose plugin is not in the plugin list panics (unwrap of None).
RECURSIVE fire_hook_loop(_, _, _)
fire_hook_loop(cd, hook_data, ii) ==
    IF ii > Len(cd.events) \/ cd.panic THEN cd
    ELSE LET event == cd.events[ii] IN
         IF event.event_type # hook_data.hook_type
         THEN fire_hook_loop(cd, hook_data, ii + 1)
         ELSE IF ~Contains(cd.plugins, event.plugin_ptr) THEN Panic(cd)
         ELSE LET after == CallHook(cd, event.f, hook_data)
                  call  == [plugin |-> event.plugin_ptr, f |-> event.f,
                            data |-> hook_data, ok |-> event.f # "fail"]
              IN  fire_hook_loop([after EXCEPT !.fired = Append(@, call)],
                                 hook_data, ii + 1)

\* fire_hook without its last two assignments: the lists taken out by
\* mem::replace are not put back
fire_hook_forgetful(cd, hook_data) ==
    [fire_hook_loop(cd, hook_data, 1) EXCEPT !.events = <<>>, !.plugins = <<>>]

\* fire_hook that gives up at the first callback that returns Err
RECURSIVE fire_hook_loop_until_failure(_, _, _)
fire_hook_loop_until_failure(cd, hook_data, ii) ==
    IF ii > Len(cd.events) \/ cd.panic THEN cd
    ELSE LET event == cd.events[ii] IN
         IF event.event_type # hook_data.hook_type
         THEN fire_hook_loop_until_failure(cd, hook_data, ii + 1)
         ELSE IF ~Contains(cd.plugins, event.plugin_ptr) THEN Panic(cd)
         ELSE LET after == CallHook(cd, event.f, hook_data)
                  call  == [plugin |-> event.plugin_ptr, f |-> event.f,
                            data |-> hook_data, ok |-> event.f # "fail"]
                  done  == [after EXCEPT !.fired = Append(@, call)]
              IN  IF call.ok THEN fire_hook_loop_until_failure(done, hook_data, ii + 1)
                  ELSE done

fire_hook_until_failure(cd, hook_data) ==
    fire_hook_loop_until_failure(cd, hook_data, 1)

fire_hook(cd, hook_data) == fire_hook_loop(cd, hook_data, 1)

\* ------------------------------------------------------------------- bots
RECURSIVE MemberModesOf(_)
MemberModesOf(umodes) ==
    IF umodes = <<>> THEN {}
    ELSE (CASE Head(umodes) = "o" -> MMODE_CHANOP
            [] Head(umodes) = "v" -> MMODE_VOICE
            [] OTHER -> {}) \cup MemberModesOf(Tail(umodes))

\* the "for channel in &bot.channels" loop of add_local_bot
RECURSIVE add_local_bot_channels(_, _, _, _)
add_local_bot_channels(cd, numeric, channels, ii) ==
    IF ii > Len(channels) \/ cd.panic THEN cd
    ELSE LET channel == channels[ii]
             ac == p10_add_channel(cd, channel.name, cd.now, channel.chanmodes, <<>>)
             am == p10_add_channel_member(ac.cd, ac.channel, numeric)
         IN  IF ac.panic THEN Panic(cd)
             ELSE IF ~am.ok THEN Panic(cd)
             ELSE add_local_bot_channels(
                      [am.cd EXCEPT !.channels[ac.channel].members[am.member].modes =
                                        @ \cup MemberModesOf(channel.umodes)],
                      numeric, channels, ii + 1)

add_local_bot(cd, bot) ==
    LET gn   == get_next_numeric(cd)
        node == [User(bot.nick, bot.ident, bot.hostname, MeIndex) EXCEPT
                    !.gecos = bot.gecos, !.numeric = gn.numeric]
        r    == p10_set_user_modes(node, <<"+", "i", "o", "k">>)
        id   == Len(cd.heap) + 1
        cd2  == [gn.cd EXCEPT !.heap = Append(@, r.user),
                              !.servers[MeIndex].users = Append(@, id),
                              !.users = Append(@, id)]
    IN  IF gn.cd.panic \/ r.panic THEN Panic(cd)
        ELSE add_local_bot_channels(cd2, gn.numeric, bot.channels, 1)

RECURSIVE add_local_bots(_, _, _)
add_local_bots(cd, bots, ii) ==
    IF ii > Len(bots) \/ cd.panic THEN cd
    ELSE add_local_bots(add_local_bot(cd, bots[ii]), bots, ii + 1)

\* the "for data in &plugins" loop of load_plugins; a plugin's identity
\* (plugin_ptr) is its place in the catalogue
RECURSIVE load_plugins_loop(_, _, _)
load_plugins_loop(cd, config_plugins, ii) ==
    IF ii > Len(config_plugins) \/ cd.panic THEN cd
    ELSE LET ptr    == config_plugins[ii]
             plugin == PluginCatalogue[ptr]
             events == [k \in 1..Len(plugin.hooks) |->
                          [plugin_ptr |-> ptr,
                           event_type |-> plugin.hooks[k].event_type,
                           f |-> plugin.hooks[k].f]]
             hooked == [cd EXCEPT !.events = @ \o events]
             botted == add_local_bots(hooked, plugin.bots, 1)
         IN  IF ~plugin.loads THEN load_plugins_loop(cd, config_plugins, ii + 1)
             ELSE IF botted.panic THEN Panic(cd)
             ELSE load_plugins_loop([botted EXCEPT !.plugins = Append(@, ptr)],
                                    config_plugins, ii + 1)

\* config_plugins is the [[plugins]] list of the configuration file
load_plugins(cd, config_plugins) == load_plugins_loop(cd, config_plugins, 1)

\* ------------------------------------------------------------------ burst
\* Result [panic, buf].  The loop stops before the sixteenth letter.
p10_build_channel_mode_string(channel) ==
    LET letters == Flatten([ii \in 1..15 |->
                       IF (ii - 1) \in channel.modes THEN <<P10_CHANNEL_MODES[ii]>> ELSE <<>>])
        b1 == IF channel.limit > 0 THEN letters \o Sp \o FormatInt(channel.limit) ELSE letters
        b2 == IF channel.key.some THEN b1 \o Sp \o channel.key.v ELSE b1
        b3 == IF channel.upass.some THEN b2 \o Sp \o channel.upass.v ELSE b2
        b4 == IF channel.apass.some THEN b3 \o Sp \o channel.apass.v ELSE b3
    IN  [panic |-> \/ (channel.limit > 0 /\ channel.modes \cap CMODE_LIMIT = {})
                   \/ (channel.key.some /\ channel.modes \cap CMODE_KEY = {})
                   \/ (channel.upass.some /\ channel.modes \cap CMODE_UPASS = {})
                   \/ (channel.apass.some /\ channel.modes \cap CMODE_APASS = {}),
         buf |-> b4]

\* the member loop of p10_burst_our_channel; m is [msg, out, opped, voiced]
RECURSIVE burst_members(_, _, _, _, _)
burst_members(cd, members, ii, base_burst, m) ==
    IF ii > Len(members) THEN m
    ELSE LET member == members[ii]
             user   == cd.heap[member.user]
             isop   == member.modes \cap MMODE_CHANOP # {}
             isv    == member.modes \cap MMODE_VOICE # {}
             op1    == isop /\ ~m.opped
             v1     == isv /\ ~m.voiced
             op2    == ~isop /\ m.opped
             v2     == ~isv /\ m.voiced
             need_colon == op1 \/ v1 \/ op2 \/ v2
             oplen  == (IF op1 THEN 1 ELSE 0) + (IF v1 THEN 1 ELSE 0)
                         + (IF need_colon THEN 1 ELSE 0)
             cut    == Len(m.msg) + Len(user.numeric) + oplen + 1 >= 500
             start  == IF cut THEN base_burst ELSE m.msg
             entry  == user.numeric
                         \o (IF need_colon
                             THEN <<":">> \o (IF isop THEN <<"o">> ELSE <<>>)
                                          \o (IF isv THEN <<"v">> ELSE <<>>)
                             ELSE <<>>)
                         \o <<",">>
         IN  burst_members(cd, members, ii + 1, base_burst,
                 [msg |-> start \o entry,
                  out |-> IF cut THEN Append(m.out, m.msg) ELSE m.out,
                  opped  |-> (m.opped \/ op1) /\ ~op2,
                  voiced |-> (m.voiced \/ v1) /\ ~v2])

\* the ban loop: every ban replaces the message built so far
RECURSIVE burst_bans(_, _, _, _)
burst_bans(bans, ii, base_burst, m) ==
    IF ii > Len(bans) THEN m
    ELSE LET cut == Len(m.msg) + Len(bans[ii]) + 2 >= 500
         IN  burst_bans(bans, ii + 1, base_burst,
                 [msg |-> bans[ii] \o Sp,
                  out |-> IF cut THEN Append(m.out, m.msg) ELSE m.out])

p10_burst_our_channel(cd, created, channel_rc) ==
    LET channel    == cd.channels[channel_rc]
        base_burst == cd.servers[MeIndex].numeric \o <<" ", "B", " ">> \o channel.name
                        \o Sp \o FormatInt(created) \o Sp
        chan_modes == p10_build_channel_mode_string(channel)
        first      == base_burst \o <<"+">> \o chan_modes.buf \o Sp
        m1 == burst_members(cd, channel.members, 1, base_burst,
                  [msg |-> first, out |-> <<>>, opped |-> FALSE, voiced |-> FALSE])
        m2 == burst_bans(channel.bans, 1, base_burst,
                  [msg |-> Front(m1.msg), out |-> m1.out])
        lines == IF Len(m2.msg) # Len(base_burst) THEN Append(m2.out, m2.msg) ELSE m2.out
    IN  IF chan_modes.panic THEN Panic(cd)
        ELSE [cd EXCEPT !.write_buffer = @ \o lines]

RECURSIVE LoweredNames(_, _, _)
LoweredNames(channels, ii, unbursted) ==
    IF ii > Len(channels) THEN unbursted
    ELSE LET lowered_name == u8_slice_to_lower(channels[ii].name)
         IN  LoweredNames(channels, ii + 1,
                 IF Contains(unbursted, lowered_name) THEN unbursted
                 ELSE Append(unbursted, lowered_name))

p10_burst_our_users(cd) ==
    LET me == cd.servers[MeIndex]
        lines == [k \in 1..Len(me.users) |->
                    p10_irc_user(p10_get_numeric(cd), cd.now, cd.heap[me.users[k]])]
    IN  [cd EXCEPT !.write_buffer = @ \o lines,
                   !.unbursted_channels = LoweredNames(cd.channels, 1, @)]

\* --------------------------------------------------------------- commands
\* argv is 0-based in the source: Arg(argv, i) is the source's argv[i].
\* Every command returns [panic, ok, cd]; on panic cd is not meaningful.
Arg(argv, i) == argv[i + 1]
Done(cd) == [panic |-> cd.panic, ok |-> TRUE, cd |-> cd]
Fail(cd) == [panic |-> FALSE, ok |-> FALSE, cd |-> cd]
Dead(cd) == [panic |-> TRUE, ok |-> FALSE, cd |-> cd]

p10_cmd_pass(cd, origin, argc, argv) ==
    IF argc # 2 THEN Fail(cd) ELSE Done(cd)

\* argv[8] is read with argc = 8, and argv[6] must hold two bytes.  The
\* uplink looked up for a later server is stored in the local that was
\* already moved into the Rc, so the listed server keeps uplink = None.
p10_cmd_server(cd, origin, argc, argv) ==
    IF argc < 8 THEN Fail(cd)
    ELSE IF Len(argv) < 9 \/ Len(Arg(argv, 6)) < 2 THEN Dead(cd)
    ELSE LET server == [Server(Arg(argv, 1), Arg(argv, 8)) EXCEPT
                          !.numeric = SubSeq(Arg(argv, 6), 1, 2),
                          !.hops = ParseHops(Arg(argv, 2)),
                          !.boot = ParseOr(Arg(argv, 3), 0),
                          !.link_time = ParseOr(Arg(argv, 4), 0)]
             shared == Len(cd.servers) + 1
             linked == IF cd.uplink = 0
                       THEN p10_burst_our_users([cd EXCEPT !.uplink = shared])
                       ELSE cd
         IN  Done([linked EXCEPT !.servers = Append(@, server)])

p10_cmd_eb(cd, origin) ==
    LET my_hostname == cd.servers[cd.uplink].hostname
        sender == find_server_numeric(cd, origin)
        acked  == IF cd.servers[sender].hostname = my_hostname
                  THEN add_to_buffer(add_to_buffer(cd, p10_irc_eob(cd)), p10_irc_eob_ack(cd))
                  ELSE cd
    IN  IF cd.uplink = 0 THEN Dead(cd)
        ELSE IF sender = 0 THEN Fail(cd)
        ELSE Done([acked EXCEPT !.servers[sender].self_burst = FALSE])

p10_cmd_ea(cd, origin) == Done(cd)

p10_cmd_gl(cd, origin, argc, argv) == Done(cd)

\* p10_cmd_g that takes a G without its timestamp for a parse error
p10_cmd_g_strict(cd, origin, argc, argv) ==
    IF argc > 3
    THEN Done(add_to_buffer(cd, p10_irc_pong_asll(cd, Arg(argv, 2), Arg(argv, 3))))
    ELSE Fail(cd)

p10_cmd_g(cd, origin, argc, argv) ==
    IF argc > 3
    THEN Done(add_to_buffer(cd, p10_irc_pong_asll(cd, Arg(argv, 2), Arg(argv, 3))))
    ELSE Done(cd)

p10_cmd_textmessage(cd, origin, argc, argv, is_privmsg) ==
    LET user    == find_user_numeric(cd, origin)
        message == Arg(argv, argc - 1)
        target  == Arg(argv, 1)
        hook_type == IF target[1] = "#" \/ target[1] = "&"
                     THEN (IF is_privmsg THEN "PrivmsgChan" ELSE "NoticeChan")
                     ELSE (IF is_privmsg THEN "PrivmsgBot" ELSE "NoticeBot")
        target_user == find_user_numeric(cd, target)
        target_key  == IF hook_type = "PrivmsgBot" THEN cd.heap[target_user].nick ELSE target
        hook_data   == [HookData(hook_type) EXCEPT
                          !.target = target_key,
                          !.origin = cd.heap[user].nick,
                          !.message = message]
    IN  IF argc < 2 THEN Fail(cd)
        ELSE IF user = 0 THEN Fail(cd)
        ELSE IF hook_type = "PrivmsgBot" /\ target_user = 0 THEN Dead(cd)
        ELSE Done(fire_hook(cd, hook_data))

p10_cmd_t(cd, origin, argc, argv) ==
    LET channel_rc == find_channel(cd, Arg(argv, 1))
        topic_time == IF argc >= 5 THEN ParseOr(Arg(argv, 3), 0) ELSE cd.now
        option_user == find_user_numeric(cd, origin)
        set == p10_set_channel_topic(cd, channel_rc, option_user, Arg(argv, argc - 1))
    IN  IF argc < 3 THEN Fail(cd)
        ELSE IF channel_rc = 0 THEN Fail(cd)
        ELSE Done([set EXCEPT !.channels[channel_rc].topic_time = topic_time])

\* the suffix loop of p10_cmd_b; r is [mode_list, ban_list, user_list].
\* n_modes starts at 1 and is carried from one '+' token to the next.
CountModeArgs(word) ==
    Cardinality({ii \in 2..Len(word) : word[ii] \in {"k", "l", "A", "U"}})

RECURSIVE p10_cmd_b_suffix(_, _, _, _, _)
p10_cmd_b_suffix(argv, argc, next, n_modes, r) ==
    IF next >= argc THEN r
    ELSE LET word == Arg(argv, next) IN
         IF word[1] = "+"
         THEN LET wanted == n_modes + CountModeArgs(word)
                  n      == IF next + wanted > argc THEN argc - next ELSE wanted
              IN  p10_cmd_b_suffix(argv, argc, next + n, n,
                      [r EXCEPT !.mode_list = unsplit_string(argv, argc, next, n)])
         ELSE IF word[1] = "%"
         THEN p10_cmd_b_suffix(argv, argc, next + 1, n_modes,
                  [r EXCEPT !.ban_list = Tail(word)])
         ELSE p10_cmd_b_suffix(argv, argc, next + 1, n_modes,
                  [r EXCEPT !.user_list = word])

\* the member-mode letters after the colon; st is the loop state
\* [cd, member_modes, oplevel, userbuf, got_colon]
ApplyMemberMode(st, ii) ==
    IF ii = "o" THEN [st EXCEPT !.member_modes = @ \cup MMODE_CHANOP]
    ELSE IF ii = "v" THEN [st EXCEPT !.member_modes = @ \cup MMODE_VOICE]
    ELSE IF IsDigit(ii) THEN [st EXCEPT !.oplevel = 999]
    ELSE st

\* the user-list loop of p10_cmd_b; index is 1-based here
RECURSIVE p10_cmd_b_users(_, _, _, _)
p10_cmd_b_users(user_list, index, channel, st) ==
    IF index > Len(user_list) THEN st.cd
    ELSE LET ii   == user_list[index]
             last == index = Len(user_list)
         IN  IF ii = "," \/ (index > 1 /\ last)
             THEN LET st1 == IF last
                             THEN (IF st.got_colon THEN ApplyMemberMode(st, ii)
                                   ELSE [st EXCEPT !.userbuf = Append(@, ii)])
                             ELSE st
                      am  == p10_add_channel_member(st1.cd, channel, st1.userbuf)
                      cd2 == IF am.ok
                             THEN [am.cd EXCEPT
                                     !.channels[channel].members[am.member].modes = st1.member_modes,
                                     !.channels[channel].members[am.member].oplevel = st1.oplevel]
                             ELSE st1.cd
                  IN  p10_cmd_b_users(user_list, index + 1, channel,
                          [st1 EXCEPT !.cd = cd2, !.userbuf = <<>>, !.got_colon = FALSE])
             ELSE IF ii = ":"
             THEN p10_cmd_b_users(user_list, index + 1, channel,
                      [st EXCEPT !.got_colon = TRUE, !.member_modes = {}, !.oplevel = 0])
             ELSE IF st.got_colon
             THEN p10_cmd_b_users(user_list, index + 1, channel, ApplyMemberMode(st, ii))
             ELSE p10_cmd_b_users(user_list, index + 1, channel,
                      [st EXCEPT !.userbuf = Append(@, ii)])

p10_cmd_b(cd, argc, argv) ==
    LET created_time == ParseOr(Arg(argv, 2), cd.now)
        lists == p10_cmd_b_suffix(argv, argc, 3, 1,
                     [mode_list |-> <<>>, ban_list |-> <<>>, user_list |-> <<>>])
        unbursted == Contains(cd.unbursted_channels, Arg(argv, 1))
        found   == find_channel(cd, Arg(argv, 1))
        bursted == IF unbursted THEN p10_burst_our_channel(cd, created_time, found) ELSE cd
        ac == p10_add_channel(bursted, Arg(argv, 1), created_time, lists.mode_list, lists.ban_list)
    IN  IF argc < 3 THEN Fail(cd)
        ELSE IF unbursted /\ found = 0 THEN Dead(cd)
        ELSE IF bursted.panic \/ ac.panic THEN Dead(cd)
        ELSE Done(p10_cmd_b_users(lists.user_list, 1, ac.channel,
                     [cd |-> ac.cd, member_modes |-> {}, oplevel |-> 0,
                      userbuf |-> <<>>, got_colon |-> FALSE]))

p10_cmd_q(cd, origin, argc, argv) ==
    LET user_rc == find_user_numeric(cd, origin)
        user    == cd.heap[user_rc]
        hook_data == [HookData("UserQuit") EXCEPT
                        !.target = user.nick,
                        !.server = Some(BaseServer(cd.servers[user.uplink])),
                        !.message = Arg(argv, argc - 1)]
        hooked  == fire_hook(cd, hook_data)
        del     == p10_del_user(hooked, origin)
    IN  IF user_rc = 0 THEN Fail(cd)
        ELSE IF hooked.panic THEN Dead(cd)
        ELSE del

\* p10_cmd_n that takes a nick change for an arrival: UserConnected is fired
\* for the renamed user
p10_cmd_n_announcing(cd, origin, argc, argv) ==
    LET option_user == find_user_numeric(cd, origin)
        server == find_server_numeric(cd, origin)
        modes  == IF argc > 9 THEN unsplit_string(argv, argc, 6, argc - 9) ELSE <<"+">>
        added  == p10_add_user(cd, server, Arg(argv, 1), Arg(argv, 4), Arg(argv, 5), modes,
                               Arg(argv, argc - 2), Arg(argv, argc - 1), Arg(argv, 3),
                               Arg(argv, argc - 3))
        renamed == [cd EXCEPT !.heap[option_user].nick = Arg(argv, 1)]
    IN  IF option_user # 0
        THEN IF argc < 2 THEN Fail(cd)
             ELSE Done(fire_hook(renamed, [HookData("UserConnected") EXCEPT
                                             !.target = Arg(argv, 1)]))
        ELSE IF argc < 9 THEN Fail(cd)
        ELSE IF added.panic THEN Dead(cd)
        ELSE IF ~added.ok THEN Fail(cd)
        ELSE Done(fire_hook(added.cd,
                 [HookData("UserConnected") EXCEPT
                    !.target = added.cd.heap[added.user].nick,
                    !.server = Some(BaseServer(added.cd.servers[server]))]))

p10_cmd_n(cd, origin, argc, argv) ==
    LET option_user == find_user_numeric(cd, origin)
        server == find_server_numeric(cd, origin)
        modes  == IF argc > 9 THEN unsplit_string(argv, argc, 6, argc - 9) ELSE <<"+">>
        added  == p10_add_user(cd, server, Arg(argv, 1), Arg(argv, 4), Arg(argv, 5), modes,
                               Arg(argv, argc - 2), Arg(argv, argc - 1), Arg(argv, 3),
                               Arg(argv, argc - 3))
        user   == added.cd.heap[added.user]
        hook_data == [HookData("UserConnected") EXCEPT
                        !.target = user.nick,
                        !.server = Some(BaseServer(added.cd.servers[user.uplink]))]
    IN  IF option_user # 0
        THEN IF argc < 2 THEN Fail(cd)
             ELSE Done([cd EXCEPT !.heap[option_user].nick = Arg(argv, 1)])
        ELSE IF argc < 9 THEN Fail(cd)
        ELSE IF added.panic THEN Dead(cd)
        ELSE IF ~added.ok THEN Fail(cd)
        ELSE Done(fire_hook(added.cd, hook_data))

\* ---------------------------------------------------------------- process
\* One inbound line at wall-clock reading t.  Result [panic, ok, cd]; ok is
\* FALSE exactly when the handler returned Err and the line was logged as a
\* PARSE ERROR.
process(cd0, message, t) ==
    LET cd   == [cd0 EXCEPT !.now = t, !.fired = <<>>]
        argv == split_line(message, TRUE, 200)
        argc == Len(argv)
        short == Len(argv[1]) < 2 \/ Len(argv[1]) < 3
        cmd  == IF short \/ cd.uplink # 0 THEN 1 ELSE 0
        from_server == find_server_numeric(cd, argv[1])
        from_user   == find_user_numeric(cd, argv[1])
        origin ==
            IF cmd = 0 THEN <<>>
            ELSE IF argv[1][1] = ":" THEN Front(argv[1])
            ELSE IF short
                 THEN (IF from_server # 0 THEN cd.servers[from_server].numeric ELSE <<>>)
                 ELSE (IF from_user # 0 THEN cd.heap[from_user].numeric ELSE <<>>)
        command == argv[cmd + 1]
        newargv == IF cmd > 0 THEN Tail(argv) ELSE argv
        n == argc - cmd
    IN  IF Len(argv) = 0 THEN Done(cd)
        ELSE IF argv[1] # <<"S", "E", "R", "V", "E", "R">> /\ argv[1] # <<"P", "A", "S", "S">>
                /\ (cd.uplink = 0 \/ cmd # 1)
        THEN Dead(cd)
        ELSE IF ~(argc > cmd) THEN Done(cd)
        ELSE CASE command = <<"S", "E", "R", "V", "E", "R">> -> p10_cmd_server(cd, origin, n, newargv)
               [] command = <<"P", "A", "S", "S">> -> p10_cmd_pass(cd, origin, n, newargv)
               [] command = <<"S">>      -> p10_cmd_server(cd, origin, n, newargv)
               [] command = <<"N">>      -> p10_cmd_n(cd, origin, n, newargv)
               [] command = <<"Q">>      -> p10_cmd_q(cd, origin, n, newargv)
               [] command = <<"B">>      -> p10_cmd_b(cd, n, newargv)
               [] command = <<"T">>      -> p10_cmd_t(cd, origin, n, newargv)
               [] command = <<"G">>      -> p10_cmd_g(cd, origin, n, newargv)
               [] command = <<"P">>      -> p10_cmd_textmessage(cd, origin, n, newargv, TRUE)
               [] command = <<"O">>      -> p10_cmd_textmessage(cd, origin, n, newargv, FALSE)
               [] command = <<"G", "L">> -> p10_cmd_gl(cd, origin, n, newargv)
               [] command = <<"E", "B">> -> p10_cmd_eb(cd, origin)
               [] command = <<"E", "A">> -> p10_cmd_ea(cd, origin)
               [] OTHER -> Fail(cd)

\* ------------------------------------------------------------- handshake
\* the two lines of the handshake, as start_handshake formats them
HandshakeLines(epoch) ==
    << <<"P", "A", "S", "S", " ", ":">> \o Config.send_pass,
       <<"S", "E", "R", "V", "E", "R", " ">> \o Config.hostname \o <<" ", "1", " ">>
         \o FormatInt(epoch) \o Sp \o FormatInt(epoch) \o <<" ", "J", "1", "0", " ">>
         \o Config.numeric \o <<"A", "]", "]", " ", "+", "s", "6", " ", ":">>
         \o Config.description >>

\* start_handshake with the phase test lost: every call queues the handshake
start_handshake_unguarded(cd, epoch) ==
    [cd EXCEPT !.state = "Bursting",
               !.write_buffer = @ \o HandshakeLines(epoch)]

\* start_handshake that takes a call in a later phase for a reconnect and
\* puts the phase back to Connecting
start_handshake_rewinding(cd, epoch) ==
    IF cd.state = "Connecting"
    THEN [cd EXCEPT !.state = "Bursting",
                    !.write_buffer = @ \o HandshakeLines(epoch)]
    ELSE [cd EXCEPT !.state = "Connecting"]

start_handshake(cd, epoch) ==
    IF cd.state = "Connecting"
    THEN add_to_buffer(
             add_to_buffer([cd EXCEPT !.state = "Bursting"], HandshakeLines(epoch)[1]),
             HandshakeLines(epoch)[2])
    ELSE cd

\* ------------------------------------------------- the lines the peer sends
\* PASS :r   (the uplink's password)
Line1 ==
    <<"P", "A", "S", "S", " ", ":", "r">>

\* SERVER u 1 1 1 J10 CD]]] +s6 :d   (the uplink introduces itself)
Line2 ==
    <<"S", "E", "R", "V", "E", "R", " ", "u", " ", "1", " ", "1", " ", "1",
      " ", "J", "1", "0", " ", "C", "D", "]", "]", "]", " ", "+", "s", "6",
      " ", ":", "d">>

\* CD S u 2 1 1 J10 EF]]] +s6 :d   (a server behind the uplink, announced under the uplink's own host name)
Line3 ==
    <<"C", "D", " ", "S", " ", "u", " ", "2", " ", "1", " ", "1", " ", "J",
      "1", "0", " ", "E", "F", "]", "]", "]", " ", "+", "s", "6", " ", ":",
      "d">>

\* CD N a 1 1 i h _ ABAAA :g   (a user on the uplink whose numnick carries our own server numeric)
Line4 ==
    <<"C", "D", " ", "N", " ", "a", " ", "1", " ", "1", " ", "i", " ", "h",
      " ", "_", " ", "A", "B", "A", "A", "A", " ", ":", "g">>

\* CD N c 1 1 i h +i _ CDAAB :g   (a user on the uplink)
Line5 ==
    <<"C", "D", " ", "N", " ", "c", " ", "1", " ", "1", " ", "i", " ", "h",
      " ", "+", "i", " ", "_", " ", "C", "D", "A", "A", "B", " ", ":", "g">>

\* AB N b 1 1 i h _ CDAAB :g   (a user announced with our numeric as origin and a numnick in use)
Line6 ==
    <<"A", "B", " ", "N", " ", "b", " ", "1", " ", "1", " ", "i", " ", "h",
      " ", "_", " ", "C", "D", "A", "A", "B", " ", ":", "g">>

\* CDAAB Q :x   (quit)
Line7 ==
    <<"C", "D", "A", "A", "B", " ", "Q", " ", ":", "x">>

\* ABAAA Q :x   (quit)
Line8 ==
    <<"A", "B", "A", "A", "A", " ", "Q", " ", ":", "x">>

\* CD B #c 1 +n CDAAB:o   (channel burst)
Line9 ==
    <<"C", "D", " ", "B", " ", "#", "c", " ", "1", " ", "+", "n", " ", "C",
      "D", "A", "A", "B", ":", "o">>

\* CD EB   (end of burst from the uplink)
Line10 ==
    <<"C", "D", " ", "E", "B">>

\* EF EB   (end of burst from the server behind the uplink)
Line11 ==
    <<"E", "F", " ", "E", "B">>

\* CDAAB P ABAAZ :m   (a private message to a numnick nobody holds)
Line12 ==
    <<"C", "D", "A", "A", "B", " ", "P", " ", "A", "B", "A", "A", "Z", " ",
      ":", "m">>

InboundLines == <<Line1, Line2, Line3, Line4, Line5, Line6,
                 Line7, Line8, Line9, Line10, Line11, Line12>>

\* read_until() hands the line over with its terminator
CRLF == <<"\r", "\n">>

\* the command token of an inbound line, as process() finds it once the
\* uplink is known (for SERVER and PASS: before it is known)
CommandOf(line) ==
    LET argv == split_line(line, TRUE, 200)
    IN  IF argv[1] \in {<<"S", "E", "R", "V", "E", "R">>, <<"P", "A", "S", "S">>}
        THEN argv[1] ELSE argv[2]

LinesWith(cmds) ==
    {k \in 1..Len(InboundLines) : CommandOf(InboundLines[k]) \in cmds}

EBLines == LinesWith({<<"E", "B">>})

\* =========================================================== state machine
\* The fields of NeroData, one variable each (me is servers[MeIndex]):
VARIABLES state, now, uplink, channels, unbursted_channels, servers, users,
          plugins, events, write_buffer, heap, fired,
\* the bytes written to the uplink socket, one entry per write_all
          socket,
\* where boot() stands: "load" before load_plugins, "connect" before the
\* handshake, "write" inside write_lines, "read" in read_until, "dead" after
\* a panic
          pc,
\* the last reading of the wall clock, and the number of lines read so far
          clock, nlines,
\* the process has panicked
          panicked,
\* the call that made the last step: [op, line, ok]
          lastOp

vars == <<state, now, uplink, channels, unbursted_channels, servers, users,
          plugins, events, write_buffer, heap, fired,
          socket, pc, clock, nlines, panicked, lastOp>>

\* the NeroData the handlers work on
CD ==
    [state |-> state, now |-> now, uplink |-> uplink, channels |-> channels,
     unbursted_channels |-> unbursted_channels, servers |-> servers,
     users |-> users, heap |-> heap, plugins |-> plugins, events |-> events,
     write_buffer |-> write_buffer,
     panic |-> FALSE, fired |-> fired]

Install(cd) ==
    /\ state' = cd.state
    /\ now' = cd.now
    /\ uplink' = cd.uplink
    /\ channels' = cd.channels
    /\ unbursted_channels' = cd.unbursted_channels
    /\ servers' = cd.servers
    /\ users' = cd.users
    /\ heap' = cd.heap
    /\ plugins' = cd.plugins
    /\ events' = cd.events
    /\ write_buffer' = cd.write_buffer
    /\ fired' = cd.fired

Holds(cd) ==
    /\ state = cd.state
    /\ now = cd.now
    /\ uplink = cd.uplink
    /\ channels = cd.channels
    /\ unbursted_channels = cd.unbursted_channels
    /\ servers = cd.servers
    /\ users = cd.users
    /\ heap = cd.heap
    /\ plugins = cd.plugins
    /\ events = cd.events
    /\ write_buffer = cd.write_buffer
    /\ fired = cd.fired

store == <<state, now, uplink, channels, unbursted_channels, servers, users,
           plugins, events, write_buffer, heap, fired>>

\* a panic ends the process; the store is left as the call found it
Crash(op, line) ==
    /\ panicked' = TRUE
    /\ pc' = "dead"
    /\ lastOp' = [op |-> op, line |-> line, ok |-> FALSE]
    /\ UNCHANGED <<store, socket>>

\* NeroData::new(config); setup()
Init ==
    /\ Holds(NeroData_new)
    /\ socket = <<>>
    /\ pc = "load"
    /\ clock = 1
    /\ nlines = 0
    /\ panicked = FALSE
    /\ lastOp = [op |-> "new", line |-> 0, ok |-> TRUE]

\* load_plugins(): every plugin the configuration file names is loaded,
\* registers its hooks and has its bots added
LoadPlugins ==
    /\ pc = "load"
    /\ ~panicked
    /\ \E config_plugins \in PluginLists :
         LET cd == load_plugins(CD, config_plugins)
         IN  IF cd.panic THEN Crash("load_plugins", 0)
             ELSE /\ Install(cd)
                  /\ pc' = "connect"
                  /\ lastOp' = [op |-> "load_plugins", line |-> 0, ok |-> TRUE]
                  /\ UNCHANGED <<socket, panicked>>
    /\ UNCHANGED <<clock, nlines>>

\* start_handshake(): boot() calls it once the socket is connected and then
\* flushes; a later call comes between two reads and waits for the next
\* flush.  The clock is read only when the phase is Connecting.
StartHandshake ==
    /\ pc \in {"connect", "read"}
    /\ ~panicked
    /\ \E epoch \in clock..MaxClock :
         /\ Install(start_handshake(CD, epoch))
         /\ clock' = IF state = "Connecting" THEN epoch ELSE clock
    /\ pc' = IF pc = "connect" THEN "write" ELSE pc
    /\ lastOp' = [op |-> "start_handshake", line |-> 0, ok |-> TRUE]
    /\ UNCHANGED <<socket, nlines, panicked>>

\* write_lines taking the newest message first (pop_back for pop_front)
WriteLine_newest_first ==
    /\ pc = "write"
    /\ ~panicked
    /\ write_buffer # <<>>
    /\ LET message == Last(write_buffer)
       IN  socket' = Append(socket,
                        IF message = <<>> \/ Last(message) # "\n"
                        THEN Append(message, "\n") ELSE message)
    /\ write_buffer' = Front(write_buffer)
    /\ lastOp' = [op |-> "write_all", line |-> 0, ok |-> TRUE]
    /\ UNCHANGED <<state, now, uplink, channels, unbursted_channels, servers, users,
                   plugins, events, heap, fired,
                   pc, clock, nlines, panicked>>

\* one turn of the write_lines loop with a message left: pop_front, add the
\* newline if it is missing, write_all
WriteLine ==
    /\ pc = "write"
    /\ ~panicked
    /\ write_buffer # <<>>
    /\ LET message == Head(write_buffer)
       IN  socket' = Append(socket,
                        IF message = <<>> \/ Last(message) # "\n"
                        THEN Append(message, "\n") ELSE message)
    /\ write_buffer' = Tail(write_buffer)
    /\ lastOp' = [op |-> "write_all", line |-> 0, ok |-> TRUE]
    /\ UNCHANGED <<state, now, uplink, channels, unbursted_channels, servers, users,
                   plugins, events, heap, fired,
                   pc, clock, nlines, panicked>>

\* the turn of the write_lines loop that finds the queue empty: Loop::Break,
\* and boot() goes on to read the next line
WriteDone ==
    /\ pc = "write"
    /\ ~panicked
    /\ write_buffer = <<>>
    /\ pc' = "read"
    /\ lastOp' = [op |-> "write_lines", line |-> 0, ok |-> TRUE]
    /\ UNCHANGED <<store, socket, clock, nlines, panicked>>

\* read_until() returns line k of InboundLines; NetState::process trims the
\* terminator and hands the line to process() at clock reading t
Receive ==
    /\ pc = "read"
    /\ ~panicked
    /\ nlines < MaxLines
    /\ nlines' = nlines + 1
    /\ \E k \in 1..Len(InboundLines), t \in clock..MaxClock :
         /\ clock' = t
         /\ LET r == process(CD, trim_bytes_right(InboundLines[k] \o CRLF), t)
            IN  IF r.panic THEN Crash("process", k)
                ELSE /\ Install(r.cd)
                     /\ pc' = "write"
                     /\ lastOp' = [op |-> "process", line |-> k, ok |-> r.ok]
                     /\ UNCHANGED <<socket, panicked>>

Next ==
    \/ LoadPlugins
    \/ StartHandshake
    \/ WriteLine
    \/ WriteDone
    \/ Receive

Spec == Init /\ [][Next]_vars

\* ------------------------------------------- a peer that bursts channels
\* The same daemon, read against a peer whose lines are about channels: the
\* boot sequence is the one of Spec, the lines read come from ChannelLines.
MaxChanLines == 4

\* CD B #c 1 CDAAB   (burst of #c, the channel of the bot, without a mode run)
ChanLine3 ==
    <<"C", "D", " ", "B", " ", "#", "c", " ", "1", " ", "C", "D", "A", "A",
      "B">>

\* CD B #r 2 +k 5 CDAAB:o   (burst of a channel with a key)
ChanLine4 ==
    <<"C", "D", " ", "B", " ", "#", "r", " ", "2", " ", "+", "k", " ", "5",
      " ", "C", "D", "A", "A", "B", ":", "o">>

\* CD B #R 1 CDAAB   (burst of #r in another spelling, with an older timestamp)
ChanLine5 ==
    <<"C", "D", " ", "B", " ", "#", "R", " ", "1", " ", "C", "D", "A", "A",
      "B">>

\* CD T #r 1 1 :t   (topic of #r)
ChanLine6 ==
    <<"C", "D", " ", "T", " ", "#", "r", " ", "1", " ", "1", " ", ":", "t">>

\* CDAAZ Q :x   (quit of a numnick nobody holds)
ChanLine7 ==
    <<"C", "D", "A", "A", "Z", " ", "Q", " ", ":", "x">>

\* CDAAZ P #c :m   (message from a numnick nobody holds)
ChanLine8 ==
    <<"C", "D", "A", "A", "Z", " ", "P", " ", "#", "c", " ", ":", "m">>

ChannelLines == <<Line2, Line5, ChanLine3, ChanLine4, ChanLine5, ChanLine6,
                  ChanLine7, ChanLine8>>

\* one turn of the read loop of boot(): read_until, process, then write_lines
ReceiveChan ==
    /\ pc = "read"
    /\ ~panicked
    /\ nlines < MaxChanLines
    /\ nlines' = nlines + 1
    /\ \E k \in 1..Len(ChannelLines), t \in clock..MaxClock :
         /\ clock' = t
         /\ LET r == process(CD, trim_bytes_right(ChannelLines[k] \o CRLF), t)
            IN  IF r.panic THEN Crash("process", k)
                ELSE /\ Install(r.cd)
                     /\ pc' = "write"
                     /\ lastOp' = [op |-> "process", line |-> k, ok |-> r.ok]
                     /\ UNCHANGED <<socket, panicked>>

NextChan ==
    \/ LoadPlugins
    \/ StartHandshake
    \/ WriteLine
    \/ WriteDone
    \/ ReceiveChan

SpecChan == Init /\ [][NextChan]_vars

\* ------------------------------------------- a plugin that sends messages
\* The same daemon with no line read from the peer: after the boot sequence
\* a hook function of the loaded plugin looks its bot up and calls
\* PluginApi::send_privmsg or send_notice with a message of its choice.
MaxSends == 2

\* the lengths of the messages the plugin sends, around the limits of a line
PayloadLengths == {1, 488, 489, 499, 501, 1400}

\* a message of n bytes in which neighbouring bytes differ
Payload(n) == [i \in 1..n |-> DigitChars[(i % 10) + 1]]

\* the targets the plugin sends to: a channel, and a nick held by a user
SendTargets == {<<"#", "c">>, BotNick}

\* one call of PluginApi::send_privmsg / send_notice (send_textmessage of
\* core_data.rs), followed by write_lines as after every event; fired holds
\* the call with its arguments
PluginSend ==
    /\ pc = "read"
    /\ ~panicked
    /\ nlines < MaxSends
    /\ nlines' = nlines + 1
    /\ get_user_by_nick(CD, BotNick).some
    /\ \E n \in PayloadLengths, target \in SendTargets, privmsg \in BOOLEAN :
         LET source == get_user_by_nick(CD, BotNick).v
             cd     == send_textmessage(CD, source, target, Payload(n), privmsg)
             call   == [plugin |-> plugins[1],
                        f |-> IF privmsg THEN "send_privmsg" ELSE "send_notice",
                        data |-> [HookData("None") EXCEPT !.origin = source.nick,
                                                          !.target = target,
                                                          !.message = Payload(n)],
                        ok |-> ~cd.panic]
         IN  /\ fired' = <<call>>
             /\ IF cd.panic
                THEN /\ panicked' = TRUE
                     /\ pc' = "dead"
                     /\ lastOp' = [op |-> "send_textmessage", line |-> n, ok |-> FALSE]
                     /\ UNCHANGED <<state, now, uplink, channels, unbursted_channels,
                                    servers, users, plugins, events, write_buffer, heap>>
                ELSE /\ write_buffer' = cd.write_buffer
                     /\ pc' = "write"
                     /\ lastOp' = [op |-> "send_textmessage", line |-> n, ok |-> TRUE]
                     /\ UNCHANGED <<state, now, uplink, channels, unbursted_channels,
                                    servers, users, plugins, events, heap, panicked>>
    /\ UNCHANGED <<socket, clock>>

NextSend ==
    \/ LoadPlugins
    \/ StartHandshake
    \/ WriteLine
    \/ WriteDone
    \/ PluginSend

SpecSend == Init /\ [][NextSend]_vars

\* --------------------------------------------- user mode strings alone
\* p10_set_user_modes applied to one user over and over, as the unit test
\* test_set_user_modes does: the user is the one of test_make_user, kept
\* as heap[1] of an otherwise empty store.
MaxModeCalls == 4

\* the mode strings applied: single letters and pairs, set and cleared, and
\* the string of the unit test with an account and a fake host
UserModeStrings ==
    << <<"+", "x">>,
       <<"+", "o">>,
       <<"+", "o", "i">>,
       <<"+", "w">>,
       <<"-", "x">>,
       <<"-", "o">>,
       <<"-", "o", "i">>,
       <<"-", "w">>,
       <<"+", "i", "-", "i">>,
       <<"+", "o", "w", "g", "r", "h", " ", "b", "l", "i", "n", "d", "s", "i", "g", "h", "t", " ", "s", "o", "m", "e", "u", "@", "s", "o", "m", "e", "h">> >>

test_make_user == User(<<"t">>, <<"k">>, <<"h">>, MeIndex)

InitModes ==
    /\ Holds([NeroData_new EXCEPT !.heap = <<test_make_user>>])
    /\ socket = <<>>
    /\ pc = "test"
    /\ clock = 1
    /\ nlines = 0
    /\ panicked = FALSE
    /\ lastOp = [op |-> "new", line |-> 0, ok |-> TRUE]

\* one call p10_set_user_modes(&mut user, mode_string)
SetUserModes ==
    /\ pc = "test"
    /\ ~panicked
    /\ nlines < MaxModeCalls
    /\ nlines' = nlines + 1
    /\ \E k \in 1..Len(UserModeStrings) :
         LET r == p10_set_user_modes(heap[1], UserModeStrings[k])
         IN  IF r.panic THEN Crash("p10_set_user_modes", k)
             ELSE /\ heap' = [heap EXCEPT ![1] = r.user]
                  /\ lastOp' = [op |-> "p10_set_user_modes", line |-> k, ok |-> TRUE]
                  /\ UNCHANGED <<state, now, uplink, channels, unbursted_channels,
                                 servers, users, plugins, events, write_buffer,
                                 fired, socket, pc, panicked>>
    /\ UNCHANGED clock

NextModes == SetUserModes

SpecModes == InitModes /\ [][NextModes]_vars

\* ---------------------------------------------- a peer that announces users
\* The same daemon, read against a peer whose lines are about users: the
\* boot sequence is the one of Spec, the lines read come from UserLines.
MaxUserLines == 4

\* CD N a 1 1 i h _ CDAAC :g   (a user on the uplink, no mode string)
UserLine2 ==
    <<"C", "D", " ", "N", " ", "a", " ", "1", " ", "1", " ", "i", " ", "h",
      " ", "_", " ", "C", "D", "A", "A", "C", " ", ":", "g">>

\* CD N e 1 1 i h +r n _ CDAAD :g   (a user logged in to account n)
UserLine4 ==
    <<"C", "D", " ", "N", " ", "e", " ", "1", " ", "1", " ", "i", " ", "h",
      " ", "+", "r", " ", "n", " ", "_", " ", "C", "D", "A", "A", "D", " ",
      ":", "g">>

\* CD N f 1 1 i h CDAAE :g   (an N that is one argument short)
UserLine5 ==
    <<"C", "D", " ", "N", " ", "f", " ", "1", " ", "1", " ", "i", " ", "h",
      " ", "C", "D", "A", "A", "E", " ", ":", "g">>

\* ZZ N f 1 1 i h _ ZZAAB :g   (an N from a server nobody announced)
UserLine6 ==
    <<"Z", "Z", " ", "N", " ", "f", " ", "1", " ", "1", " ", "i", " ", "h",
      " ", "_", " ", "Z", "Z", "A", "A", "B", " ", ":", "g">>

\* CD N f 1 1 i h _ CD :g   (an N whose numnick has two characters)
UserLine7 ==
    <<"C", "D", " ", "N", " ", "f", " ", "1", " ", "1", " ", "i", " ", "h",
      " ", "_", " ", "C", "D", " ", ":", "g">>

\* CDAAB N d 2   (nick change)
UserLine8 ==
    <<"C", "D", "A", "A", "B", " ", "N", " ", "d", " ", "2">>

\* CDAAB P #c :m   (message to a channel)
UserLine10 ==
    <<"C", "D", "A", "A", "B", " ", "P", " ", "#", "c", " ", ":", "m">>

\* CDAAB O #c :m   (notice to a channel)
UserLine11 ==
    <<"C", "D", "A", "A", "B", " ", "O", " ", "#", "c", " ", ":", "m">>

\* CDAAB P ABAAA :m   (message to the first local numnick)
UserLine12 ==
    <<"C", "D", "A", "A", "B", " ", "P", " ", "A", "B", "A", "A", "A", " ",
      ":", "m">>

\* CDAAB O ABAAA :m   (notice to the first local numnick)
UserLine13 ==
    <<"C", "D", "A", "A", "B", " ", "O", " ", "A", "B", "A", "A", "A", " ",
      ":", "m">>

UserLines == <<Line2, UserLine2, Line5, UserLine4, UserLine5, UserLine6,
               UserLine7, UserLine8, Line7, UserLine10, UserLine11,
               UserLine12, UserLine13>>

\* one turn of the read loop of boot(): read_until, process, then write_lines
ReceiveUser ==
    /\ pc = "read"
    /\ ~panicked
    /\ nlines < MaxUserLines
    /\ nlines' = nlines + 1
    /\ \E k \in 1..Len(UserLines), t \in clock..MaxClock :
         /\ clock' = t
         /\ LET r == process(CD, trim_bytes_right(UserLines[k] \o CRLF), t)
            IN  IF r.panic THEN Crash("process", k)
                ELSE /\ Install(r.cd)
                     /\ pc' = "write"
                     /\ lastOp' = [op |-> "process", line |-> k, ok |-> r.ok]
                     /\ UNCHANGED <<socket, panicked>>

NextUser ==
    \/ LoadPlugins
    \/ StartHandshake
    \/ WriteLine
    \/ WriteDone
    \/ ReceiveUser

SpecUser == Init /\ [][NextUser]_vars

\* ------------------------------------------------ a plugin and its hooks
\* fire_hook on its own: the plugin of the catalogue has been loaded with the
\* list of hooks its register_hooks returned, and the core fires hooks of
\* one type after the other without flushing the outbound buffer in between.
MaxHooks == 3
MaxFires == 2

\* the hook types fired and the callbacks a plugin may register for them
HookTypes == <<"UserConnected", "UserQuit", "PrivmsgChan">>
HookFunctions == {"reply", "fail"}

\* the lists register_hooks may return
HookLists ==
    UNION { [1..n -> [event_type : {HookTypes[i] : i \in 1..Len(HookTypes)},
                      f : HookFunctions, plugin_ptr : {1}]] : n \in 0..MaxHooks }

InitHooks ==
    /\ \E hooks \in HookLists :
         Holds([load_plugins(NeroData_new, <<1>>) EXCEPT !.events = hooks])
    /\ socket = <<>>
    /\ pc = "hooks"
    /\ clock = 1
    /\ nlines = 0
    /\ panicked = FALSE
    /\ lastOp = [op |-> "load_plugins", line |-> 0, ok |-> TRUE]

\* core_data.fire_hook(&hook_data) for a hook of type HookTypes[k]
FireHook ==
    /\ pc = "hooks"
    /\ ~panicked
    /\ nlines < MaxFires
    /\ nlines' = nlines + 1
    /\ \E k \in 1..Len(HookTypes) :
         LET hook_data == [HookData(HookTypes[k]) EXCEPT !.target = BotNick]
             cd == fire_hook([CD EXCEPT !.fired = <<>>], hook_data)
         IN  IF cd.panic THEN Crash("fire_hook", k)
             ELSE /\ Install(cd)
                  /\ lastOp' = [op |-> "fire_hook", line |-> k, ok |-> TRUE]
                  /\ UNCHANGED <<socket, pc, panicked>>
    /\ UNCHANGED clock

NextHooks == FireHook

SpecHooks == InitHooks /\ [][NextHooks]_vars

\* ------------------------------------------- a peer that sends messages
\* The same daemon with a plugin that listens to every kind of message: the
\* plugin of the catalogue, its register_hooks returning TextHooks.  The
\* lines read come from TextLines.
MaxTextLines == 4

TextHooks ==
    << [plugin_ptr |-> 1, event_type |-> "PrivmsgChan", f |-> "reply"],
       [plugin_ptr |-> 1, event_type |-> "PrivmsgBot", f |-> "reply"],
       [plugin_ptr |-> 1, event_type |-> "NoticeChan", f |-> "reply"],
       [plugin_ptr |-> 1, event_type |-> "NoticeBot", f |-> "reply"] >>

\* load_plugins() for a configuration that names this plugin
LoadTextPlugin ==
    /\ pc = "load"
    /\ ~panicked
    /\ LET cd == load_plugins(CD, <<1>>)
       IN  IF cd.panic THEN Crash("load_plugins", 0)
           ELSE /\ Install([cd EXCEPT !.events = TextHooks])
                /\ pc' = "connect"
                /\ lastOp' = [op |-> "load_plugins", line |-> 0, ok |-> TRUE]
                /\ UNCHANGED <<socket, panicked>>
    /\ UNCHANGED <<clock, nlines>>

\* CDAAB O &l :m n   (notice to a local channel, in two words)
TextLine7 ==
    <<"C", "D", "A", "A", "B", " ", "O", " ", "&", "l", " ", ":", "m", " ",
      "n">>

TextLines == <<Line2, Line5, UserLine10, UserLine11, UserLine12, UserLine13,
               UserLine8, Line12, TextLine7>>

\* one turn of the read loop of boot(): read_until, process, then write_lines
ReceiveText ==
    /\ pc = "read"
    /\ ~panicked
    /\ nlines < MaxTextLines
    /\ nlines' = nlines + 1
    /\ \E k \in 1..Len(TextLines), t \in clock..MaxClock :
         /\ clock' = t
         /\ LET r == process(CD, trim_bytes_right(TextLines[k] \o CRLF), t)
            IN  IF r.panic THEN Crash("process", k)
                ELSE /\ Install(r.cd)
                     /\ pc' = "write"
                     /\ lastOp' = [op |-> "process", line |-> k, ok |-> r.ok]
                     /\ UNCHANGED <<socket, panicked>>

NextText ==
    \/ LoadTextPlugin
    \/ StartHandshake
    \/ WriteLine
    \/ WriteDone
    \/ ReceiveText

SpecText == Init /\ [][NextText]_vars

\* ------------------------------------- a peer that has introduced itself
\* The same daemon, read against a peer that sends its SERVER line before
\* anything else and then lines about topics, pings and channel members.
MaxBurstLines == 4

\* CD T #c a 2 :t   (topic from a server, a word and a timestamp before it)
BurstLine4 ==
    <<"C", "D", " ", "T", " ", "#", "c", " ", "a", " ", "2", " ", ":", "t">>

\* CDAAB T #c :u   (topic from a user, without timestamps)
BurstLine5 ==
    <<"C", "D", "A", "A", "B", " ", "T", " ", "#", "c", " ", ":", "u">>

\* CDAAB T #c 1 2 :v   (topic from a user, with both timestamps)
BurstLine6 ==
    <<"C", "D", "A", "A", "B", " ", "T", " ", "#", "c", " ", "1", " ", "2",
      " ", ":", "v">>

\* CD G !1 AB 4   (ping)
BurstLine7 ==
    <<"C", "D", " ", "G", " ", "!", "1", " ", "A", "B", " ", "4">>

\* CD G !1 AB   (ping without its timestamp)
BurstLine8 ==
    <<"C", "D", " ", "G", " ", "!", "1", " ", "A", "B">>

\* CD B #r 1 CDAAB,CDAAC:o   (members: the mode run on the second entry)
BurstLine9 ==
    <<"C", "D", " ", "B", " ", "#", "r", " ", "1", " ", "C", "D", "A", "A",
      "B", ",", "C", "D", "A", "A", "C", ":", "o">>

\* CD B #r 1 CDAAB:o,CDAAC   (members: the mode run on the first entry)
BurstLine10 ==
    <<"C", "D", " ", "B", " ", "#", "r", " ", "1", " ", "C", "D", "A", "A",
      "B", ":", "o", ",", "C", "D", "A", "A", "C">>

\* CD B #r 1 CDAAB:ov,CDAAC:v   (members: two mode runs)
BurstLine11 ==
    <<"C", "D", " ", "B", " ", "#", "r", " ", "1", " ", "C", "D", "A", "A",
      "B", ":", "o", "v", ",", "C", "D", "A", "A", "C", ":", "v">>

\* CD B #r 1 CDAAB:o,CDAAC:,CDAAB   (members: an empty mode run in the middle)
BurstLine12 ==
    <<"C", "D", " ", "B", " ", "#", "r", " ", "1", " ", "C", "D", "A", "A",
      "B", ":", "o", ",", "C", "D", "A", "A", "C", ":", ",", "C", "D", "A",
      "A", "B">>

\* CD B #r 1 CDAAB:o,CDAAC:   (members: an empty mode run at the end)
BurstLine13 ==
    <<"C", "D", " ", "B", " ", "#", "r", " ", "1", " ", "C", "D", "A", "A",
      "B", ":", "o", ",", "C", "D", "A", "A", "C", ":">>

BurstLines == <<Line2, Line5, UserLine2, BurstLine4, BurstLine5, BurstLine6,
                BurstLine7, BurstLine8, BurstLine9, BurstLine10, BurstLine11,
                BurstLine12, BurstLine13>>

\* one turn of the read loop of boot(): read_until, process, then
\* write_lines; the first line the peer sends is its SERVER line
ReceiveBurst ==
    /\ pc = "read"
    /\ ~panicked
    /\ nlines < MaxBurstLines
    /\ nlines' = nlines + 1
    /\ \E k \in 1..Len(BurstLines), t \in clock..MaxClock :
         /\ nlines = 0 => k = 1
         /\ clock' = t
         /\ LET r == process(CD, trim_bytes_right(BurstLines[k] \o CRLF), t)
            IN  IF r.panic THEN Crash("process", k)
                ELSE /\ Install(r.cd)
                     /\ pc' = "write"
                     /\ lastOp' = [op |-> "process", line |-> k, ok |-> r.ok]
                     /\ UNCHANGED <<socket, panicked>>

NextBurst ==
    \/ LoadPlugins
    \/ StartHandshake
    \/ WriteLine
    \/ WriteDone
    \/ ReceiveBurst

SpecBurst == Init /\ [][NextBurst]_vars

\* ------------------------------------------------ local bots, one by one
\* add_local_bot on its own: plugins register bots one after the other.
\* The counter of numnicks starts where earlier bots, gone since, have left
\* it (a Q removes a local bot and leaves the counter alone).
MaxBots == 3

\* counter readings around the carries of the three base-64 digits
CounterStarts == {0, 62, 63, 4094, 4095, 262139}

InitBots ==
    /\ \E start \in CounterStarts :
         Holds([NeroData_new EXCEPT !.servers[MeIndex].numeric_accum = start])
    /\ socket = <<>>
    /\ pc = "load"
    /\ clock = 1
    /\ nlines = 0
    /\ panicked = FALSE
    /\ lastOp = [op |-> "new", line |-> 0, ok |-> TRUE]

\* protocol.add_local_bot(self, &bot) for a bot without channels
AddLocalBot ==
    /\ pc = "load"
    /\ ~panicked
    /\ nlines < MaxBots
    /\ nlines' = nlines + 1
    /\ \E nick \in {<<"x">>, <<"y">>, <<"z">>} :
         LET cd == add_local_bot(CD, [nick |-> nick, ident |-> <<"i">>,
                                      hostname |-> <<"h">>, gecos |-> <<"g">>,
                                      channels |-> <<>>])
         IN  IF cd.panic THEN Crash("add_local_bot", 0)
             ELSE /\ Install(cd)
                  /\ lastOp' = [op |-> "add_local_bot", line |-> 0, ok |-> TRUE]
                  /\ UNCHANGED <<socket, pc, panicked>>
    /\ UNCHANGED clock

NextBots == AddLocalBot

SpecBots == InitBots /\ [][NextBots]_vars
\* ------------------------------------------ channel mode strings alone
\* p10_set_channel_modes applied to the channel of test_make_channel, as the
\* unit test test_parses_channel_mode_strings and p10_add_channel do (both
\* call it on a channel that was just built), and p10_add_channel_mode
\* applied letter by letter to the channel that is there, as the unit test
\* test_adds_channel_mode_bitflags does.  The channel is channels[1] of an
\* otherwise empty store.
MaxCModeCalls == 3

\* the mode strings applied: the two of the unit test, argument letters in
\* both orders, a limit that is not a number, and strings without arguments
ChannelModeStrings ==
    << <<"+", "n", "t", "l", " ", "3", "4">>,
       <<"+", "k", "U", " ", "T", "H", "A", "K", "E", "Y", " ", "u", "s", "e", "r", "p", "a", "s", "s">>,
       <<"+", "k", "l", " ", "s", "e", "c", "r", "e", "t", " ", "1", "0">>,
       <<"+", "l", "k", " ", "1", "0", " ", "s", "e", "c", "r", "e", "t">>,
       <<"+", "U", "k", " ", "u", "p", " ", "k", "e", "y">>,
       <<"+", "k", "A", " ", "k", "e", "y", " ", "a", "p">>,
       <<"+", "A", "k", " ", "a", "p", " ", "k", "e", "y">>,
       <<"+", "l", " ", "x">>,
       <<"+", "n", "l", " ", "t", "e", "n">>,
       <<"+", "n">>,
       <<"+", "x">>,
       <<"+">>,
       <<>> >>

\* the letters handed to p10_add_channel_mode: the sixteen it knows, the 'u'
\* of P10_CHANNEL_MODES and a letter of neither
ChannelModeLetters ==
    <<"p", "s", "m", "t", "i", "n", "k", "b", "l", "D", "r", "c", "C", "z",
      "A", "U", "u", "x">>

test_make_channel == Channel(<<"#", "n", "e", "r", "o">>, 0)

InitCModes ==
    /\ Holds([NeroData_new EXCEPT !.channels = <<test_make_channel>>])
    /\ socket = <<>>
    /\ pc = "test"
    /\ clock = 1
    /\ nlines = 0
    /\ panicked = FALSE
    /\ lastOp = [op |-> "new", line |-> 0, ok |-> TRUE]

\* let mut channel = test_make_channel();
\* p10_set_channel_modes(&mut channel, mode_string)
SetChannelModes ==
    /\ pc = "test"
    /\ ~panicked
    /\ nlines < MaxCModeCalls
    /\ nlines' = nlines + 1
    /\ \E k \in 1..Len(ChannelModeStrings) :
         LET r == p10_set_channel_modes(test_make_channel, ChannelModeStrings[k])
         IN  IF r.panic THEN Crash("p10_set_channel_modes", k)
             ELSE /\ channels' = <<r.channel>>
                  /\ lastOp' = [op |-> "p10_set_channel_modes", line |-> k, ok |-> TRUE]
                  /\ UNCHANGED <<state, now, uplink, unbursted_channels,
                                 servers, users, plugins, events, write_buffer,
                                 heap, fired, socket, pc, panicked>>
    /\ UNCHANGED clock

\* p10_add_channel_mode(&mut channel, adding, &letter); lastOp.ok is adding
AddChannelMode ==
    /\ pc = "test"
    /\ ~panicked
    /\ nlines < MaxCModeCalls
    /\ nlines' = nlines + 1
    /\ \E k \in 1..Len(ChannelModeLetters), adding \in BOOLEAN :
         /\ channels' = <<p10_add_channel_mode(channels[1], adding, ChannelModeLetters[k])>>
         /\ lastOp' = [op |-> "p10_add_channel_mode", line |-> k, ok |-> adding]
    /\ UNCHANGED <<state, now, uplink, unbursted_channels, servers, users,
                   plugins, events, write_buffer, heap, fired, socket, pc,
                   panicked, clock>>

NextCModes == SetChannelModes \/ AddChannelMode

SpecCModes == InitCModes /\ [][NextCModes]_vars
\* ------------------------------------------- the burst of our own channel
\* p10_burst_our_channel applied to one channel of the store, and the lines
\* it appends handed to process() of a store that knows the same servers and
\* users and no channel.  The store is written down rather than reached:
\* this server, the uplink CD with its users CDAAB, CDAAC, ... and one
\* channel, whose members are the first users in the order of the list.
MaxMembers == 6

\* the length of the long channel name: with it "<me> B <name> <created> "
\* has 480 bytes, so that the 500-byte limit of one line is met after two or
\* three members
NameLength == 472

\* the channel names: a short one and a long one
BurstNames == << <<"#", "r">>, <<"#">> \o [i \in 1..(NameLength - 1) |-> "r"] >>

\* ChannelMember.modes of member i of n under pattern p: nobody, everybody
\* an operator, the first member alone, operators and voiced members in
\* turn, the last member alone
MemberPatterns == 1..5

PatternModes(p, i, n) ==
    CASE p = 1 -> {}
      [] p = 2 -> MMODE_CHANOP
      [] p = 3 -> IF i = 1 THEN MMODE_CHANOP ELSE {}
      [] p = 4 -> IF i % 2 = 1 THEN MMODE_CHANOP ELSE MMODE_VOICE
      [] p = 5 -> IF i = n THEN MMODE_CHANOP ELSE {}

\* modes with their arguments, as p10_set_channel_modes leaves them
BurstChannelModes ==
    << [modes |-> {}, limit |-> 0, key |-> None, upass |-> None],
       [modes |-> CMODE_TOPICLIMIT \cup CMODE_NOPRIVMSGS, limit |-> 0,
        key |-> None, upass |-> None],
       [modes |-> CMODE_LIMIT, limit |-> 5, key |-> None, upass |-> None],
       [modes |-> CMODE_NOPRIVMSGS \cup CMODE_KEY, limit |-> 0,
        key |-> Some(<<"k">>), upass |-> None],
       [modes |-> CMODE_UPASS, limit |-> 0, key |-> None,
        upass |-> Some(<<"p">>)] >>

BurstBanLists == << <<>>, << <<"b">> >>, << <<"b">>, <<"c">> >> >>

BurstUser(i) ==
    [User(<<"n">>, <<"i">>, <<"h">>, 2) EXCEPT
       !.numeric = <<"C", "D">> \o inttobase64(i, 3)]

BurstStore(name, n, p, m, b) ==
    [NeroData_new EXCEPT
       !.state = "Connected",
       !.now = 1,
       !.uplink = 2,
       !.servers = Append(@, [Server(<<"u">>, <<"d">>) EXCEPT
                                !.numeric = <<"C", "D">>,
                                !.users = [i \in 1..MaxMembers |-> i]]),
       !.heap = [i \in 1..MaxMembers |-> BurstUser(i)],
       !.users = [i \in 1..MaxMembers |-> i],
       !.unbursted_channels = <<name>>,
       !.channels = << [Channel(name, 1) EXCEPT
                          !.modes = BurstChannelModes[m].modes,
                          !.limit = BurstChannelModes[m].limit,
                          !.key = BurstChannelModes[m].key,
                          !.upass = BurstChannelModes[m].upass,
                          !.bans = BurstBanLists[b],
                          !.members = [i \in 1..n |->
                              [ChannelMember(i) EXCEPT !.modes = PatternModes(p, i, n)]]] >>]

InitBurstOut ==
    /\ \E name \in 1..Len(BurstNames), n \in 0..MaxMembers, p \in MemberPatterns,
          m \in 1..Len(BurstChannelModes), b \in 1..Len(BurstBanLists) :
         Holds(BurstStore(BurstNames[name], n, p, m, b))
    /\ socket = <<>>
    /\ pc = "test"
    /\ clock = 1
    /\ nlines = 0
    /\ panicked = FALSE
    /\ lastOp = [op |-> "new", line |-> 0, ok |-> TRUE]

\* p10_burst_our_channel(core_data, created_time, &channel), called as
\* p10_cmd_b calls it; created_time is the channel's own
BurstOurChannel ==
    /\ pc = "test"
    /\ ~panicked
    /\ LET r == p10_burst_our_channel(CD, channels[1].created, 1)
       IN  IF r.panic THEN Crash("p10_burst_our_channel", 1)
           ELSE /\ Install(r)
                /\ pc' = "burst"
                /\ lastOp' = [op |-> "p10_burst_our_channel", line |-> 1, ok |-> TRUE]
                /\ UNCHANGED <<socket, panicked>>
    /\ UNCHANGED <<clock, nlines>>

NextBurstOut == BurstOurChannel

SpecBurstOut == InitBurstOut /\ [][NextBurstOut]_vars

\* ------------------------------------------------- a burst and its reader
\* The lines of a burst read back: the store is the one above with the
\* short channel name and at most MaxReadMembers members.
MaxReadMembers == 2

InitRoundTrip ==
    /\ \E n \in 0..MaxReadMembers, p \in MemberPatterns,
          m \in 1..Len(BurstChannelModes), b \in 1..Len(BurstBanLists) :
         Holds(BurstStore(BurstNames[1], n, p, m, b))
    /\ socket = <<>>
    /\ pc = "test"
    /\ clock = 1
    /\ nlines = 0
    /\ panicked = FALSE
    /\ lastOp = [op |-> "new", line |-> 0, ok |-> TRUE]

\* the store of the reader: it knows the servers and users of the writer
\* and none of its channels.  channels[1] stays the channel of the writer;
\* the channels after it are the reader's.
BurstReader ==
    [CD EXCEPT !.channels = Tail(channels), !.unbursted_channels = <<>>,
               !.write_buffer = <<>>]

\* the store the reader is left with
InstallReader(cd) ==
    /\ channels' = <<channels[1]>> \o cd.channels
    /\ now' = cd.now
    /\ heap' = cd.heap
    /\ users' = cd.users
    /\ servers' = cd.servers
    /\ fired' = cd.fired
    /\ UNCHANGED <<state, uplink, unbursted_channels, plugins, events, write_buffer>>

\* the reader is handed the next line of the burst: process(line, reader)
ReadBurst ==
    /\ pc = "burst"
    /\ ~panicked
    /\ nlines < Len(write_buffer)
    /\ nlines' = nlines + 1
    /\ LET r == process(BurstReader, trim_bytes_right(write_buffer[nlines + 1] \o CRLF), clock)
       IN  IF r.panic THEN Crash("process", nlines + 1)
           ELSE /\ InstallReader(r.cd)
                /\ lastOp' = [op |-> "process", line |-> nlines + 1, ok |-> r.ok]
                /\ UNCHANGED <<socket, pc, panicked>>
    /\ UNCHANGED clock

NextRoundTrip == BurstOurChannel \/ ReadBurst

SpecRoundTrip == InitRoundTrip /\ [][NextRoundTrip]_vars
\* ------------------------------------------------ the link to the uplink
\* The same daemon with a plugin that registers bots on channels, read
\* against a peer that introduces servers and ends its burst.
MaxLinkLines == 3

\* the bots a plugin may register: x and y on #c, z on #d
LinkBot(nick, name, umodes) ==
    [nick |-> nick, ident |-> <<"i">>, hostname |-> <<"h">>, gecos |-> <<"g">>,
     channels |-> << [name |-> name, chanmodes |-> <<"+", "n">>,
                      umodes |-> umodes] >>]

LinkBots ==
    << LinkBot(<<"x">>, <<"#", "c">>, <<"o">>),
       LinkBot(<<"y">>, <<"#", "c">>, <<"v">>),
       LinkBot(<<"z">>, <<"#", "d">>, <<>>) >>

\* what register_bots() may return: no bot, or some of LinkBots in any order
LinkBotLists ==
    { bs \in UNION { [1..n -> 1..Len(LinkBots)] : n \in 0..2 } :
        \A i, j \in 1..Len(bs) : i # j => bs[i] # bs[j] }

\* EF S w 3 1 1 J10 GH]]] +s6 :e   (a server two hops away, announced by the server behind the uplink)
LinkLine3 ==
    <<"E", "F", " ", "S", " ", "w", " ", "3", " ", "1", " ", "1", " ", "J",
      "1", "0", " ", "G", "H", "]", "]", "]", " ", "+", "s", "6", " ", ":",
      "e">>

\* SERVER u 1 1 1 J10 CD]]] +s6   (the uplink introduces itself without a description: eight tokens)
LinkLine4 ==
    <<"S", "E", "R", "V", "E", "R", " ", "u", " ", "1", " ", "1", " ", "1",
      " ", "J", "1", "0", " ", "C", "D", "]", "]", "]", " ", "+", "s", "6">>

\* SERVER u 1 1 1 J10 CD]]]   (a truncated SERVER line: seven tokens)
LinkLine5 ==
    <<"S", "E", "R", "V", "E", "R", " ", "u", " ", "1", " ", "1", " ", "1",
      " ", "J", "1", "0", " ", "C", "D", "]", "]", "]">>

\* CD SERVER v 2 1 1 J10 IJ]]] +s6 :f   (a server behind the uplink, announced with the long command name)
LinkLine6 ==
    <<"C", "D", " ", "S", "E", "R", "V", "E", "R", " ", "v", " ", "2", " ",
      "1", " ", "1", " ", "J", "1", "0", " ", "I", "J", "]", "]", "]", " ",
      "+", "s", "6", " ", ":", "f">>

\* CD B #c 1 +n   (the uplink bursts channel #c)
LinkLine7 ==
    <<"C", "D", " ", "B", " ", "#", "c", " ", "1", " ", "+", "n">>

LinkLines == <<Line2, Line3, LinkLine3, LinkLine4, LinkLine5, LinkLine6,
               LinkLine7, Line10>>

\* load_plugins() for a configuration that names one plugin without hooks:
\* register_bots() returns the bots, each is added, the plugin is kept
LoadBotPlugin ==
    /\ pc = "load"
    /\ ~panicked
    /\ \E bs \in LinkBotLists :
         LET cd == add_local_bots(CD, [i \in 1..Len(bs) |-> LinkBots[bs[i]]], 1)
         IN  IF cd.panic THEN Crash("load_plugins", 0)
             ELSE /\ Install([cd EXCEPT !.plugins = Append(@, Len(PluginCatalogue) + 1)])
                  /\ pc' = "connect"
                  /\ lastOp' = [op |-> "load_plugins", line |-> 0, ok |-> TRUE]
                  /\ UNCHANGED <<socket, panicked>>
    /\ UNCHANGED <<clock, nlines>>

\* one turn of the read loop of boot(): read_until, process, write_lines
ReceiveLink ==
    /\ pc = "read"
    /\ ~panicked
    /\ nlines < MaxLinkLines
    /\ nlines' = nlines + 1
    /\ \E k \in 1..Len(LinkLines), t \in clock..MaxClock :
         /\ clock' = t
         /\ LET r == process(CD, trim_bytes_right(LinkLines[k] \o CRLF), t)
            IN  IF r.panic THEN Crash("process", k)
                ELSE /\ Install(r.cd)
                     /\ pc' = "write"
                     /\ lastOp' = [op |-> "process", line |-> k, ok |-> r.ok]
                     /\ UNCHANGED <<socket, panicked>>

NextLink ==
    \/ LoadBotPlugin
    \/ StartHandshake
    \/ WriteLine
    \/ WriteDone
    \/ ReceiveLink

SpecLink == Init /\ [][NextLink]_vars

\* ------------------------------------------------ local bots on channels
\* add_local_bot for bots that declare channels, one bot after the other,
\* as load_plugins adds them before the daemon connects.
MaxChannelBots == 2

\* the channels a bot may declare: name, chanmodes, umodes
BotChannels ==
    << [name |-> <<"#", "c">>, chanmodes |-> <<"+", "n">>, umodes |-> <<"o">>],
       [name |-> <<"#", "C">>, chanmodes |-> <<"+", "t", "n">>, umodes |-> <<"v">>],
       [name |-> <<"#", "d">>, chanmodes |-> <<"+", "l", " ", "5">>, umodes |-> <<>>],
       [name |-> <<"#", "e">>,
        chanmodes |-> <<"+", "k", "l", " ", "s", " ", "1", "0">>,
        umodes |-> <<"o", "v">>] >>

\* the channel lists of a bot: up to two declarations in any order
BotChannelLists ==
    UNION { [1..n -> 1..Len(BotChannels)] : n \in 0..2 }

ChannelBot(nick, ds) ==
    [nick |-> nick, ident |-> <<"i">>, hostname |-> <<"h">>, gecos |-> <<"g">>,
     channels |-> [i \in 1..Len(ds) |-> BotChannels[ds[i]]]]

\* protocol.add_local_bot(self, &bot); lastOp tells the nick's place in
\* ChannelBotNicks (line) and the channel list of the bot (ds)
ChannelBotNicks == << <<"x">>, <<"y">> >>

AddChannelBot ==
    /\ pc = "load"
    /\ ~panicked
    /\ nlines < MaxChannelBots
    /\ nlines' = nlines + 1
    /\ \E n \in 1..Len(ChannelBotNicks), ds \in BotChannelLists :
         LET cd == add_local_bot(CD, ChannelBot(ChannelBotNicks[n], ds))
         IN  IF cd.panic
             THEN /\ panicked' = TRUE
                  /\ pc' = "dead"
                  /\ lastOp' = [op |-> "add_local_bot", line |-> n, ok |-> FALSE,
                                ds |-> ds]
                  /\ UNCHANGED <<store, socket>>
             ELSE /\ Install(cd)
                  /\ lastOp' = [op |-> "add_local_bot", line |-> n, ok |-> TRUE,
                                ds |-> ds]
                  /\ UNCHANGED <<socket, pc, panicked>>
    /\ UNCHANGED clock

NextChannelBots == AddChannelBot

SpecChannelBots == Init /\ [][NextChannelBots]_vars

\* ------------------------------------------------------ the tokenizer alone
\* split_line on its own, and process() on the same line: the line read
\* from the socket is any short line over a space, a colon and a letter.
\* process() asks for MaxArgc tokens at most; the limit is argv_size, and
\* split_line is also called with limits that short lines reach.
MaxArgc == 200
MaxSplitLength == 5
ArgvSizes == {1, 2, 3, MaxArgc}

ShortLines ==
    UNION { [1..n -> {" ", ":", "a"}] : n \in 0..MaxSplitLength }

SplitInputs == ShortLines

\* the store before the uplink is known, and with the uplink CD known
LinkedStore ==
    [NeroData_new EXCEPT
        !.state = "Bursting", !.uplink = 2,
        !.servers = Append(@, [Server(<<"u">>, <<"d">>) EXCEPT
                                  !.numeric = <<"C", "D">>])]

\* read_until has returned a line; lastOp.line is the line
InitSplit ==
    /\ \E cd \in {NeroData_new, LinkedStore} : Holds(cd)
    /\ socket = <<>>
    /\ pc = "read"
    /\ clock = 1
    /\ nlines = 0
    /\ panicked = FALSE
    /\ \E line \in SplitInputs :
         lastOp = [op |-> "read_until", line |-> line, ok |-> TRUE]

\* split_line(message, true, argv_size); process() calls it with 200.
\* lastOp keeps the line and holds the limit and the result (argc, argv)
SplitLine ==
    /\ pc = "read"
    /\ ~panicked
    /\ lastOp.op = "read_until"
    /\ \E argv_size \in ArgvSizes :
         LET argv == split_line(lastOp.line, TRUE, argv_size)
         IN  lastOp' = [op |-> "split_line", line |-> lastOp.line, ok |-> TRUE,
                        argv_size |-> argv_size, argc |-> Len(argv), argv |-> argv]
    /\ UNCHANGED <<store, socket, pc, clock, nlines, panicked>>

\* process() on the line at clock reading t
ProcessSplit ==
    /\ pc = "read"
    /\ ~panicked
    /\ lastOp.op \in {"read_until", "split_line"}
    /\ nlines' = nlines + 1
    /\ \E t \in clock..MaxClock :
         /\ clock' = t
         /\ LET r == process(CD, lastOp.line, t)
            IN  IF r.panic
                THEN /\ panicked' = TRUE
                     /\ pc' = "dead"
                     /\ lastOp' = [op |-> "process", line |-> lastOp.line, ok |-> FALSE]
                     /\ UNCHANGED <<store, socket>>
                ELSE /\ Install(r.cd)
                     /\ pc' = "write"
                     /\ lastOp' = [op |-> "process", line |-> lastOp.line, ok |-> r.ok]
                     /\ UNCHANGED <<socket, panicked>>

NextSplit == SplitLine \/ ProcessSplit

SpecSplit == InitSplit /\ [][NextSplit]_vars

\* ================================================================= claims
\* the user records of the global list, and the servers whose user list
\* holds a given user
ListedUsers == {users[i] : i \in 1..Len(users)}
ServersHolding(u) == {sv \in 1..Len(servers) : Contains(servers[sv].users, u)}
Occurrences(list, x) == Cardinality({i \in 1..Len(list) : list[i] = x})

\* the server an inbound line names as its origin, looked up in the store
\* the line meets (0: none)
SenderOf(k) == find_server_numeric(CD, split_line(InboundLines[k], TRUE, 200)[1])

\* C1: no inbound line drives process() into a panic: unknown users, servers
\* and channels, lines that arrive before the uplink is known and values
\* that are not numbers are logged and dropped.
C1_ProcessNeverPanics == ~(panicked /\ lastOp.op = "process")

\* C2: every user of the global list is in the user list of exactly one
\* server, once.
C2_EveryUserOnExactlyOneServer ==
    \A u \in ListedUsers :
        /\ Cardinality(ServersHolding(u)) = 1
        /\ \A sv \in ServersHolding(u) : Occurrences(servers[sv].users, u) = 1

\* C3: every member record of every channel refers to a user that is still
\* in the global list.
C3_MembersAreListedUsers ==
    \A c \in 1..Len(channels) : \A m \in 1..Len(channels[c].members) :
        channels[c].members[m].user \in ListedUsers

\* C4: no two users of the global list have the same numnick.
C4_NumnicksUnique ==
    \A i, j \in 1..Len(users) :
        i # j => heap[users[i]].numeric # heap[users[j]].numeric

\* C5: the first two characters of every listed user's numnick are the
\* numeric of a listed server, and that server's user list holds the user.
C5_UserOnPrefixServer ==
    \A u \in ListedUsers :
        \E sv \in ServersHolding(u) :
            servers[sv].numeric = SubSeq(heap[u].numeric, 1, 2)

\* C6: the connection phase only moves forward along Connecting, Bursting,
\* Connected, Quitting: no step, a repeated start_handshake() included,
\* takes it to an earlier phase.
PhaseRank(phase) ==
    CASE phase = "Connecting" -> 1
      [] phase = "Bursting"   -> 2
      [] phase = "Connected"  -> 3
      [] phase = "Quitting"   -> 4

C6_PhaseOnlyMovesForward == [][PhaseRank(state') >= PhaseRank(state)]_vars

\* start_handshake() has been called again after the phase had moved on
C6_RepeatedHandshakeSeen ==
    lastOp.op = "start_handshake" /\ pc = "read" /\ state = "Bursting" /\ nlines > 0

\* C7: start_handshake() in phase Connecting sets the phase to Bursting and
\* appends exactly "PASS :<send_pass>" and then "SERVER <hostname> 1 <epoch>
\* <epoch> J10 <numeric>A]] +s6 :<description>"; in any other phase it
\* changes neither the phase nor the buffer.
ExpectedPass == <<"P", "A", "S", "S", " ", ":", "s">>
ExpectedServer(epoch) ==
    <<"S", "E", "R", "V", "E", "R", " ", "m", " ", "1", " ">> \o FormatInt(epoch)
      \o <<" ">> \o FormatInt(epoch)
      \o <<" ", "J", "1", "0", " ", "A", "B", "A", "]", "]", " ", "+", "s", "6", " ", ":", "M">>

C7_HandshakeEffect ==
    [][lastOp'.op = "start_handshake" =>
         IF state = "Connecting"
         THEN /\ state' = "Bursting"
              /\ write_buffer' = write_buffer \o <<ExpectedPass, ExpectedServer(clock')>>
         ELSE /\ state' = state
              /\ write_buffer' = write_buffer]_vars

\* the first handshake has just queued its two lines
C7_HandshakeQueued ==
    /\ lastOp.op = "start_handshake"
    /\ pc = "write"
    /\ state = "Bursting"
    /\ write_buffer = <<ExpectedPass, ExpectedServer(clock)>>

\* C8: when the phase is Bursting and an EB from the direct uplink is
\* processed, the phase becomes Connected.
C8_UplinkEBConnects ==
    [][(/\ lastOp'.op = "process" /\ lastOp'.line \in EBLines /\ lastOp'.ok
        /\ state = "Bursting"
        /\ uplink # 0 /\ SenderOf(lastOp'.line) = uplink)
         => state' = "Connected"]_vars

\* C9: an EB from a known server sets that server's self_burst to false; it
\* appends exactly "<me> EB" and "<me> EA" if the sender is the direct
\* uplink and nothing otherwise.
C9_EBReply ==
    [][(/\ lastOp'.op = "process" /\ lastOp'.line \in EBLines /\ ~panicked'
        /\ uplink # 0 /\ SenderOf(lastOp'.line) # 0)
         => /\ servers'[SenderOf(lastOp'.line)].self_burst = FALSE
            /\ write_buffer' = write_buffer \o
                  (IF SenderOf(lastOp'.line) = uplink
                   THEN << <<"A", "B", " ", "E", "B">>, <<"A", "B", " ", "E", "A">> >>
                   ELSE <<>>)]_vars

\* C10: outbound lines reach the socket in the order they were pushed, each
\* once: a push adds at the back of the buffer and leaves the socket alone,
\* a write moves the front of the buffer to the end of the socket.  Every
\* line queued while an inbound line is processed (by the handler or by a
\* hook it fires) is written before the next line is read: the buffer is
\* empty whenever a read starts.
IsPrefix(a, b) == Len(a) <= Len(b) /\ SubSeq(b, 1, Len(a)) = a
Terminated(message) ==
    IF message = <<>> \/ Last(message) # "\n" THEN Append(message, "\n") ELSE message

C10_OutboundOrder ==
    [][/\ (pc' = "read" => write_buffer' = <<>>)
       /\ (lastOp'.op = "process" => write_buffer = <<>>)
       /\ \/ socket' = socket /\ IsPrefix(write_buffer, write_buffer')
          \/ /\ write_buffer # <<>>
             /\ socket' = Append(socket, Terminated(Head(write_buffer)))
             /\ write_buffer' = Tail(write_buffer)]_vars

\* a line a hook queued has been written, and the next read is about to start
C10_HookLineFlushed ==
    /\ pc = "read"
    /\ lastOp.op = "write_lines"
    /\ \E i \in 1..Len(fired) : fired[i].f = "reply"
    /\ Len(socket) >= 4
    /\ write_buffer = <<>>

\* ------------------------------------------------------------------ C11
\* the step reads line k of ChannelLines
ReadsChan(k) ==
    /\ lastOp'.op = "process"
    /\ nlines' = nlines + 1
    /\ lastOp'.line = k

\* line k of ChannelLines refers to something the store does not hold: a T
\* for a channel that is not there, or a Q, P or O whose origin is no user
RefersToMissingState(k) ==
    LET argv == split_line(ChannelLines[k], TRUE, 200)
    IN  /\ Len(argv) >= 3
        /\ \/ /\ argv[2] = <<"T">>
              /\ find_channel(CD, argv[3]) = 0
           \/ /\ argv[2] \in {<<"Q">>, <<"P">>, <<"O">>}
              /\ ~find_user_by_numeric(CD, argv[1]).some

\* C11: a command that refers to missing state (T for a channel that is not
\* in the store, Q, P or O from an origin that is no known user) returns an
\* error and leaves servers, users, channels, memberships, the phase and the
\* outbound buffer as they were; no hook is fired, and the daemon goes on to
\* the next line.
C11_MissingStateIsAnError ==
    [][\A k \in 1..Len(ChannelLines) :
         ReadsChan(k) /\ RefersToMissingState(k)
         => /\ ~lastOp'.ok
            /\ ~panicked'
            /\ pc' = "write"
            /\ fired' = <<>>
            /\ UNCHANGED <<servers, users, heap, channels, state, write_buffer>>]_vars

\* the same once the uplink is known
C11_MissingStateAfterUplink ==
    [][\A k \in 1..Len(ChannelLines) :
         ReadsChan(k) /\ RefersToMissingState(k) /\ uplink # 0
         => /\ ~lastOp'.ok
            /\ ~panicked'
            /\ pc' = "write"
            /\ fired' = <<>>
            /\ UNCHANGED <<servers, users, heap, channels, state, write_buffer>>]_vars

\* ------------------------------------------------------------------ C12
\* channel i of the store after the step had no member before it (or was not
\* there) and has one now
GotFirstMember(i) ==
    /\ channels'[i].members # <<>>
    /\ (i <= Len(channels) => channels[i].members = <<>>)

\* C12: a user who becomes the first member of a channel that had no member
\* and has neither REGISTERED (+z) nor APASS (+A) holds CHANOP when the
\* operation completes, whether the member came with an inbound B or with
\* the join of a local bot.
C12_FirstMemberIsChanop ==
    [][\A i \in 1..Len(channels') :
         /\ GotFirstMember(i)
         /\ channels'[i].modes \cap (CMODE_REGISTERED \cup CMODE_APASS) = {}
         => MMODE_CHANOP \subseteq channels'[i].members[1].modes]_vars

\* ------------------------------------------------------------------ C13
\* C13: a channel stores a key only while its KEY bit is set, a limit other
\* than zero only while its LIMIT bit is set, a user password only while
\* UPASS is set and an admin password only while APASS is set.
C13_ModeArgsNeedTheirBit ==
    \A i \in 1..Len(channels) :
      LET c == channels[i]
      IN  /\ (c.key.some => CMODE_KEY \subseteq c.modes)
          /\ (c.limit # 0 => CMODE_LIMIT \subseteq c.modes)
          /\ (c.upass.some => CMODE_UPASS \subseteq c.modes)
          /\ (c.apass.some => CMODE_APASS \subseteq c.modes)

\* a B with "+k 5" has been processed: the channel holds the key "5", and
\* the argument was not taken for a limit
C13_KeyStored ==
    \E i \in 1..Len(channels) :
      /\ channels[i].key = Some(<<"5">>)
      /\ channels[i].limit = 0
      /\ CMODE_KEY \subseteq channels[i].modes

\* ------------------------------------------------------------------ C14
\* every registered event names a plugin that is in the plugin list once
PluginOfEveryEvent ==
    \A i \in 1..Len(events) : Occurrences(plugins, events[i].plugin_ptr) = 1

\* C14: the plugin identity of every registered hook event matches exactly
\* one loaded plugin, and a call that fires hooks leaves the event list and
\* the plugin list with the contents and the order they had before it.
C14_HooksAndPlugins ==
    /\ [](PluginOfEveryEvent)
    /\ [][fired' # <<>> => events' = events /\ plugins' = plugins]_vars

\* a line has been processed that fired a hook of a loaded plugin
C14_HookFired ==
    /\ lastOp.op = "process"
    /\ fired # <<>>
    /\ events # <<>>
    /\ plugins # <<>>

\* ------------------------------------------------------------------ C15
\* C15: a channel is looked up without regard to ASCII case (every stored
\* channel is found under the spelling it was announced with), and no two
\* channels of the store have names that are equal after lower-casing.
C15_ChannelNamesFoldCase ==
    /\ \A i \in 1..Len(channels) :
         LET found == find_channel(CD, channels[i].name)
         IN  /\ found # 0
             /\ u8_slice_to_lower(channels[found].name) = u8_slice_to_lower(channels[i].name)
    /\ \A i, j \in 1..Len(channels) :
         i # j => u8_slice_to_lower(channels[i].name) # u8_slice_to_lower(channels[j].name)

\* the second half of C15 alone
C15_NoTwoChannelsOfOneName ==
    \A i, j \in 1..Len(channels) :
      i # j => u8_slice_to_lower(channels[i].name) # u8_slice_to_lower(channels[j].name)

\* ------------------------------------------------------------------ C16
\* the nicks and numnicks a plugin may ask for: those of the bot and of the
\* user the peer announces, in both cases, and one nobody has
NickProbes == {<<"x">>, <<"X">>, <<"c">>, <<"C">>, <<"q">>}
NumericProbes ==
    {<<"A", "B", "A", "A", "A">>, <<"a", "b", "a", "a", "a">>,
     <<"C", "D", "A", "A", "B">>, <<"C", "D", "A", "A", "Z">>}

UsersWithNickFolded(n) ==
    {u \in ListedUsers : u8_slice_to_lower(heap[u].nick) = u8_slice_to_lower(n)}
UsersWithNumeric(x) == {u \in ListedUsers : heap[u].numeric = x}

\* C16: get_user_by_nick(n) returns a user whose nick equals n under ASCII
\* case folding whenever there is one and nothing otherwise, and
\* get_user_by_numeric(x) returns a user whose numnick equals x byte for
\* byte whenever there is one and nothing otherwise.
C16_UserLookups ==
    /\ \A n \in NickProbes :
         LET r == get_user_by_nick(CD, n)
         IN  IF UsersWithNickFolded(n) # {}
             THEN r.some /\ u8_slice_to_lower(r.v.nick) = u8_slice_to_lower(n)
             ELSE ~r.some
    /\ \A x \in NumericProbes :
         LET r == find_user_by_numeric(CD, x)
         IN  IF UsersWithNumeric(x) # {}
             THEN r.some /\ r.v.numeric = x
             ELSE ~r.some

\* the second half of C16 alone: the lookup by numnick
C16_NumericLookupExact ==
    \A x \in NumericProbes :
      LET r == find_user_by_numeric(CD, x)
      IN  IF UsersWithNumeric(x) # {}
          THEN r.some /\ r.v.numeric = x
          ELSE ~r.some

\* --------------------------------------------------------------- C17, C18
\* the step is a call of send_privmsg / send_notice
Sends == lastOp'.op = "send_textmessage" /\ nlines' = nlines + 1

\* the message of that call, and the prefix its lines are to carry:
\* "<numnick of the source> P|O <target> :", the target being the numnick
\* of the user with that nick when there is one
SentMessage == fired'[1].data.message
SentPrefix ==
    LET data   == fired'[1].data
        source == heap[find_user_nick(CD, data.origin)].numeric
        t      == find_user_nick(CD, data.target)
        target == IF t # 0 THEN heap[t].numeric ELSE data.target
        cmd    == IF fired'[1].f = "send_privmsg" THEN "P" ELSE "O"
    IN  source \o <<" ", cmd, " ">> \o target \o <<" ", ":">>

\* the lines the call has appended to the outbound buffer
SentLines == SubSeq(write_buffer', Len(write_buffer) + 1, Len(write_buffer'))

\* C17: a message of n bytes is appended as ceiling_division(n + length
\* of the prefix, 500) lines (one line for a short message, two and three
\* for longer ones).
C17_LineCount ==
    [][Sends => /\ ~panicked'
                /\ Len(SentLines) =
                     ceiling_division(Len(SentMessage) + Len(SentPrefix), 500)]_vars

\* C18: every line appended for one message starts with the same prefix
\* "<source numnick> P|O <target> :", no line is longer than 500 bytes with
\* its prefix, and the parts after the prefix, put together in order, are
\* the message.
C18_LinesCarryTheMessage ==
    [][Sends => /\ ~panicked'
                /\ \A i \in 1..Len(SentLines) :
                     /\ IsPrefix(SentPrefix, SentLines[i])
                     /\ Len(SentLines[i]) <= 500
                /\ Flatten([i \in 1..Len(SentLines) |->
                              SubSeq(SentLines[i], Len(SentPrefix) + 1, Len(SentLines[i]))])
                     = SentMessage]_vars

\* both claims for a message that fits into one line with its prefix
C18_ShortMessages ==
    [][Sends /\ Len(SentMessage) + Len(SentPrefix) <= 500
       => /\ ~panicked'
          /\ SentLines = <<SentPrefix \o SentMessage>>]_vars

\* ------------------------------------------------------------------ C19
\* line k of ChannelLines is a B; the channel and the timestamp it names
IsBurst(k)    == split_line(ChannelLines[k], TRUE, 200)[2] = <<"B">>
BurstName(k)  == split_line(ChannelLines[k], TRUE, 200)[3]
BurstTime(k)  == ParseU64(split_line(ChannelLines[k], TRUE, 200)[4]).v
SetMin(S)     == CHOOSE m \in S : \A x \in S : m <= x

\* the channels of the store that a name stands for (names fold case)
SameChannel(name) ==
    {i \in 1..Len(channels) :
       u8_slice_to_lower(channels[i].name) = u8_slice_to_lower(name)}

\* what a B for (name, ts) has to leave behind, the channel being looked up
\* after the step
BurstKeepsMinimum(name, ts) ==
    LET j == find_channel([channels |-> channels'], name)
    IN  /\ j # 0
        /\ channels'[j].created =
             SetMin({ts} \cup {channels[i].created : i \in SameChannel(name)})
        /\ \A i \in SameChannel(name) :
             IF ts < channels[i].created
             THEN /\ channels'[j].topic = <<>>
                  /\ channels'[j].topic_time = 0
             ELSE /\ j = i
                  /\ IsPrefix(channels[i].members, channels'[j].members)
                  /\ channels'[j] = [channels[i] EXCEPT !.members = channels'[j].members]

\* C19: over the B commands received for one channel the stored creation
\* timestamp is the smallest one received so far: a B with an older
\* timestamp overwrites it and clears topic and topic_time, a B with an
\* equal or later one leaves created, topic and topic_time as they are and
\* only appends the members it lists.
C19_CreatedIsMinimum ==
    [][\A k \in 1..Len(ChannelLines) :
         ReadsChan(k) /\ IsBurst(k) /\ ~panicked'
         => BurstKeepsMinimum(BurstName(k), BurstTime(k))]_vars

\* the same as long as no name with an upper-case letter is or gets stored
C19_LowerCaseStore ==
    [][\A k \in 1..Len(ChannelLines) :
         /\ ReadsChan(k) /\ IsBurst(k) /\ ~panicked'
         /\ \A i \in 1..Len(channels') : channels'[i].name = u8_slice_to_lower(channels'[i].name)
         => BurstKeepsMinimum(BurstName(k), BurstTime(k))]_vars

\* an older B has overwritten the timestamp of a channel and cleared its topic
C19_OlderBurstSeen ==
    /\ lastOp.op = "process" /\ lastOp.ok /\ IsBurst(lastOp.line)
    /\ \E i \in 1..Len(channels) :
         /\ channels[i].name = <<"#", "r">>
         /\ channels[i].created = 1
         /\ channels[i].topic = <<>>
         /\ channels[i].key.some

\* ------------------------------------------------------------------ C20
\* the positions of our own B lines for a channel in a list of lines
OurBurstLines(name, lines) ==
    {i \in 1..Len(lines) :
       IsPrefix(Config.numeric \o <<" ", "B", " ">> \o name \o Sp, lines[i])}

\* every line handed to the socket or waiting in the outbound buffer
Emitted == socket \o write_buffer

\* C20: unbursted_channels holds the names of our own channels whose burst
\* has not been emitted yet; when the uplink's B for such a channel is read,
\* our B lines for it are appended, and our burst for one channel is emitted
\* at most once.
C20_BurstOnce ==
    /\ [](\A i \in 1..Len(unbursted_channels) :
            OurBurstLines(unbursted_channels[i], Emitted) = {})
    /\ [][\A k \in 1..Len(ChannelLines) :
            ReadsChan(k) /\ IsBurst(k) /\ ~panicked'
            => LET name == BurstName(k)
                   ours == OurBurstLines(name, write_buffer')
               IN  /\ Contains(unbursted_channels, name) => ours # {}
                   /\ ours # {} => /\ OurBurstLines(name, Emitted) = {}
                                   /\ ~Contains(unbursted_channels', name)]_vars

\* the part of C20 the code keeps: the uplink's B for a channel named in
\* unbursted_channels makes our B lines for it the first lines queued, and
\* a B for any other channel queues none
C20_BurstOnUplinkBurst ==
    [][\A k \in 1..Len(ChannelLines) :
         ReadsChan(k) /\ IsBurst(k) /\ ~panicked'
         => LET name == BurstName(k)
                ours == OurBurstLines(name, write_buffer')
            IN  IF Contains(unbursted_channels, name)
                THEN 1 \in ours
                ELSE ours = {}]_vars

\* our burst for #c is on the socket twice
C20_BurstTwice ==
    Cardinality(OurBurstLines(<<"#", "c">>, socket)) >= 2

\* ------------------------------------------------------------------ C21
\* the step applies user mode string k of UserModeStrings
AppliesModes(k) ==
    /\ lastOp'.op = "p10_set_user_modes"
    /\ nlines' = nlines + 1
    /\ lastOp'.line = k

\* what the letters of a mode string ask for, read left to right up to the
\* first space: the bits after "+" are set, the bits after "-" are cleared
RECURSIVE AskedModes(_, _, _, _)
AskedModes(bits, modes, idx, adding) ==
    IF idx > Len(modes) \/ modes[idx] = " " THEN bits
    ELSE IF modes[idx] = "+" THEN AskedModes(bits, modes, idx + 1, TRUE)
    ELSE IF modes[idx] = "-" THEN AskedModes(bits, modes, idx + 1, FALSE)
    ELSE AskedModes(IF adding THEN bits \cup UserModeFlag(modes[idx])
                    ELSE bits \ UserModeFlag(modes[idx]),
                    modes, idx + 1, adding)

\* C21: a user mode string changes only the bits of the letters it names (r
\* and h aside): a letter after "+" has its bit set and every bit set before
\* stays set, a letter after "-" has its bit cleared and the bits of the
\* letters not named keep their value.
C21_ModeStringTouchesItsLetters ==
    [][\A k \in 1..Len(UserModeStrings) :
         AppliesModes(k) /\ ~panicked'
         => heap'[1].modes \ UMODE_STAMPED
              = AskedModes(heap[1].modes, UserModeStrings[k], 1, TRUE) \ UMODE_STAMPED]_vars

\* the half of C21 the code keeps: a string that only sets modes
C21_SettingKeepsOtherBits ==
    [][\A k \in 1..Len(UserModeStrings) :
         /\ AppliesModes(k) /\ ~panicked'
         /\ \A i \in 1..Len(UserModeStrings[k]) : UserModeStrings[k][i] # "-"
         => heap'[1].modes \ UMODE_STAMPED
              = AskedModes(heap[1].modes, UserModeStrings[k], 1, TRUE) \ UMODE_STAMPED]_vars

\* ------------------------------------------------------------------ C22
\* the step reads line k of UserLines
ReadsUser(k) ==
    /\ lastOp'.op = "process"
    /\ nlines' = nlines + 1
    /\ lastOp'.line = k

\* origin, command word and arguments of line k of UserLines, the command
\* word being argument 0
UserOrigin(k) == split_line(UserLines[k], TRUE, 200)[1]
UserArgv(k)   == Tail(split_line(UserLines[k], TRUE, 200))
UserArgc(k)   == Len(UserArgv(k))
IsCommand(k, word) ==
    /\ Len(split_line(UserLines[k], TRUE, 200)) >= 2
    /\ UserOrigin(k) # <<"S", "E", "R", "V", "E", "R">>
    /\ UserArgv(k)[1] = word

\* the servers and the listed users of the store that carry a numeric
ServersNumbered(numeric) ==
    {s \in 1..Len(servers) : servers[s].numeric = numeric}
UsersNumbered(numeric) ==
    {i \in 1..Len(users) : heap[users[i]].numeric = numeric}

\* the registered hooks of one type, and the calls of the step
HooksOfType(type) ==
    {i \in 1..Len(events) : events[i].event_type = type}
FiredOnce(type) ==
    /\ Len(fired') = Cardinality(HooksOfType(type))
    /\ \A i \in 1..Len(fired') : fired'[i].data.hook_type = type

\* line k is an N that has to introduce a user
IntroducesUser(k) ==
    /\ UserArgc(k) >= 9
    /\ ServersNumbered(UserOrigin(k)) # {}
    /\ Len(UserArgv(k)[UserArgc(k) - 1]) \in 3..5

\* the user of line k has been added to the global list and to the list of
\* its origin server, and UserConnected has been fired
UserIntroduced(k) ==
    LET argv == UserArgv(k)
        argc == UserArgc(k)
        new  == heap'[Last(users')]
    IN  /\ ~panicked'
        /\ Len(users') = Len(users) + 1
        /\ Front(users') = users
        /\ \A s \in 1..Len(servers) :
             IF s \in ServersNumbered(UserOrigin(k))
             THEN /\ Len(servers'[s].users) = Len(servers[s].users) + 1
                  /\ Front(servers'[s].users) = servers[s].users
                  /\ Last(servers'[s].users) = Last(users')
             ELSE servers'[s].users = servers[s].users
        /\ Cardinality(ServersNumbered(UserOrigin(k))) = 1
        /\ new.nick = argv[2]
        /\ new.ident = argv[5]
        /\ new.host = argv[6]
        /\ new.numeric = argv[argc - 1]
        /\ new.gecos = argv[argc]
        /\ argc = 9 => new.modes = {}
        /\ FiredOnce("UserConnected")

FirstNumbered(numeric) ==
    IF UsersNumbered(numeric) = {} THEN 0
    ELSE users[SetMin(UsersNumbered(numeric))]

\* C23: an N whose origin is an existing user replaces that user's nick by
\* its first argument and nothing else: numnick, server, modes and every
\* other field of the user, the other users, the user lists, the channels
\* with their members and the outbound buffer stay as they were, and no
\* hook is fired.
C23_NickChangeOnlyRenames ==
    [][\A k \in 1..Len(UserLines) :
         /\ ReadsUser(k) /\ IsCommand(k, <<"N">>)
         /\ UsersNumbered(UserOrigin(k)) # {} /\ UserArgc(k) >= 2
         => /\ ~panicked'
            /\ heap' = [heap EXCEPT ![FirstNumbered(UserOrigin(k))].nick = UserArgv(k)[2]]
            /\ users' = users
            /\ servers' = servers
            /\ channels' = channels
            /\ write_buffer' = write_buffer
            /\ fired' = <<>>]_vars

\* a user introduced as c is known as d after its nick change
C23_Renamed ==
    /\ lastOp = [op |-> "process", line |-> 8, ok |-> TRUE]
    /\ UserLines[8] = UserLine8
    /\ \E i \in 1..Len(users) :
         /\ heap[users[i]].numeric = <<"C", "D", "A", "A", "B">>
         /\ heap[users[i]].nick = <<"d">>
         /\ UMODE_INVISIBLE \subseteq heap[users[i]].modes

\* ------------------------------------------------------------------ C24
\* the lines the step has appended to the outbound buffer
Appended ==
    SubSeq(write_buffer', Len(write_buffer) + 1, Len(write_buffer'))

\* what a Q from the user numbered as the origin of line k has to do: every
\* UserQuit hook is called once with the quit message, the calls find the
\* user in the global list (a reply to its nick is addressed to its
\* numnick), and afterwards the user is in no list and its numnick resolves
\* to nobody
QuitDone(k) ==
    LET numeric == UserOrigin(k)
        pos     == SetMin(UsersNumbered(numeric))
        user    == users[pos]
    IN  /\ ~panicked'
        /\ FiredOnce("UserQuit")
        /\ \A i \in 1..Len(fired') :
             /\ fired'[i].data.message = UserArgv(k)[UserArgc(k)]
             /\ fired'[i].data.target = heap[user].nick
        /\ Len(Appended) = Cardinality({i \in 1..Len(fired') : fired'[i].f = "reply"})
        /\ \A i \in 1..Len(Appended) :
             split_line(Appended[i], TRUE, 200)[3] = numeric
        /\ users' = RemoveAt(users, pos)
        /\ \A s \in 1..Len(servers) :
             /\ ~Contains(servers'[s].users, user)
             /\ Contains(servers[s].users, user)
                => Len(servers'[s].users) = Len(servers[s].users) - 1
             /\ ~Contains(servers[s].users, user)
                => servers'[s].users = servers[s].users
        /\ \A i \in 1..Len(users') : heap'[users'[i]].numeric # numeric

\* C24: a Q from a known user fires UserQuit exactly once, with the last
\* argument as message and while the user is still in the global list; only
\* then the user is removed from the global list and from the list of its
\* server, and afterwards no lookup by its numnick succeeds.
C24_QuitRemovesUser ==
    [][\A k \in 1..Len(UserLines) :
         ReadsUser(k) /\ IsCommand(k, <<"Q">>) /\ UsersNumbered(UserOrigin(k)) # {}
         => QuitDone(k)]_vars

\* the same for a quitting user whose numnick no other user carries
C24_QuitOfUniqueNumnick ==
    [][\A k \in 1..Len(UserLines) :
         /\ ReadsUser(k) /\ IsCommand(k, <<"Q">>)
         /\ Cardinality(UsersNumbered(UserOrigin(k))) = 1
         => QuitDone(k)]_vars

\* ------------------------------------------------------------------ C25
\* the place in events of the n-th registered hook of a type
NthHookOfType(type, n) ==
    CHOOSE j \in HooksOfType(type) :
        Cardinality({x \in HooksOfType(type) : x <= j}) = n

\* C25: fire_hook calls every registered hook of the fired type exactly
\* once, in registration order, and no hook of another type; a callback
\* that fails stops nothing: the hooks after it are called, the lines queued
\* before it stay in the outbound buffer, and the registrations stay.
C25_EveryHookOnceInOrder ==
    [][\A k \in 1..Len(HookTypes) :
         lastOp'.op = "fire_hook" /\ nlines' = nlines + 1 /\ lastOp'.line = k
         => /\ ~panicked'
            /\ Len(fired') = Cardinality(HooksOfType(HookTypes[k]))
            /\ \A n \in 1..Len(fired') :
                 /\ fired'[n].f = events[NthHookOfType(HookTypes[k], n)].f
                 /\ fired'[n].plugin = events[NthHookOfType(HookTypes[k], n)].plugin_ptr
                 /\ fired'[n].data.hook_type = HookTypes[k]
            /\ IsPrefix(write_buffer, write_buffer')
            /\ Len(Appended) = Cardinality({n \in 1..Len(fired') : fired'[n].f = "reply"})
            /\ events' = events
            /\ plugins' = plugins]_vars

\* a callback has queued a line, the next one has failed, and a third one
\* has queued a line after it
C25_FailureBetweenReplies ==
    /\ lastOp.op = "fire_hook"
    /\ Len(fired) = 3
    /\ fired[1].ok /\ ~fired[2].ok /\ fired[3].ok
    /\ Len(write_buffer) >= 2

\* ------------------------------------------------------------------ C26
\* origin, and command word with arguments, of line k of TextLines
TextOrigin(k) == split_line(TextLines[k], TRUE, 200)[1]
TextArgv(k)   == Tail(split_line(TextLines[k], TRUE, 200))
IsTextMessage(k) ==
    /\ Len(TextArgv(k)) >= 3
    /\ TextArgv(k)[1] \in {<<"P">>, <<"O">>}

\* the hook a P or O has to fire and the target it has to hand to it
ToChannel(k) == TextArgv(k)[2][1] \in {"#", "&"}
TextHookType(k) ==
    IF TextArgv(k)[1] = <<"P">>
    THEN (IF ToChannel(k) THEN "PrivmsgChan" ELSE "PrivmsgBot")
    ELSE (IF ToChannel(k) THEN "NoticeChan" ELSE "NoticeBot")
TextHookTarget(k) ==
    IF ToChannel(k) THEN TextArgv(k)[2]
    ELSE heap[FirstNumbered(TextArgv(k)[2])].nick

\* the step has fired the hooks of line k with the given target
TextHookFired(k, target) ==
    /\ ~panicked'
    /\ FiredOnce(TextHookType(k))
    /\ \A i \in 1..Len(fired') :
         /\ fired'[i].data.target = target
         /\ fired'[i].data.origin = heap[FirstNumbered(TextOrigin(k))].nick
         /\ fired'[i].data.message = Last(TextArgv(k))

\* C26: a P or O from a known user whose target starts with # or & fires
\* PrivmsgChan or NoticeChan with the channel name as target; for any other
\* target it fires PrivmsgBot or NoticeBot with the nick of the user whose
\* numnick the target is; the origin handed to the hook is the sender's
\* nick and the message is the last argument.
C26_TextHooks ==
    [][\A k \in 1..Len(TextLines) :
         /\ ReadsUser(k) /\ IsTextMessage(k)
         /\ UsersNumbered(TextOrigin(k)) # {}
         /\ ToChannel(k) \/ UsersNumbered(TextArgv(k)[2]) # {}
         => TextHookFired(k, TextHookTarget(k))]_vars

\* what the code does: the same, except that NoticeBot is handed the target
\* as it came, a numnick
C26_NoticeBotGetsNumnick ==
    [][\A k \in 1..Len(TextLines) :
         /\ ReadsUser(k) /\ IsTextMessage(k)
         /\ UsersNumbered(TextOrigin(k)) # {}
         /\ ToChannel(k) \/ UsersNumbered(TextArgv(k)[2]) # {}
         => TextHookFired(k, IF TextHookType(k) = "NoticeBot"
                             THEN TextArgv(k)[2] ELSE TextHookTarget(k))]_vars

\* ------------------------------------------------------------------ C27
\* origin, and command word with arguments, of line k of BurstLines
BurstOrigin(k) == split_line(BurstLines[k], TRUE, 200)[1]
BurstArgv(k)   == Tail(split_line(BurstLines[k], TRUE, 200))
BurstArgc(k)   == Len(BurstArgv(k))
IsBurstCommand(k, word) ==
    /\ BurstOrigin(k) # <<"S", "E", "R", "V", "E", "R">>
    /\ BurstArgv(k)[1] = word

\* the channels of the store that line k names
BurstChannel(k) ==
    {i \in 1..Len(channels) : channels[i].name = BurstArgv(k)[2]}

\* the T of line k has set the topic of its channel, with topic_nick as
\* given, and has left the rest of the channel and the other channels alone
TopicSet(k, topic_nick) ==
    /\ ~panicked'
    /\ lastOp'.ok
    /\ \A j \in BurstChannel(k) :
         channels' = [channels EXCEPT
                        ![j].topic = Last(BurstArgv(k)),
                        ![j].topic_time = IF BurstArgc(k) >= 5
                                          THEN ParseU64(BurstArgv(k)[4]).v
                                          ELSE now',
                        ![j].topic_nick = topic_nick]

\* the nick of the user a T comes from, or the topic_nick the channel had
OriginNickOr(k, j) ==
    IF UsersNumbered(BurstOrigin(k)) # {}
    THEN heap[FirstNumbered(BurstOrigin(k))].nick
    ELSE channels[j].topic_nick

C28_PingIsAnswered ==
    [][\A k \in 1..Len(BurstLines) :
         ReadsUser(k) /\ IsBurstCommand(k, <<"G">>)
         => /\ ~panicked'
            /\ lastOp'.ok
            /\ <<channels', unbursted_channels', servers', users', heap',
                 uplink', state', plugins', events'>>
               = <<channels, unbursted_channels, servers, users, heap,
                   uplink, state, plugins, events>>
            /\ fired' = <<>>
            /\ IsPrefix(write_buffer, write_buffer')
            /\ Appended =
                 IF BurstArgc(k) > 3
                 THEN << servers[MeIndex].numeric \o <<" ", "Z", " ">>
                           \o BurstArgv(k)[3] \o <<" ">> \o BurstArgv(k)[4]
                           \o <<" ", "0", " ">> \o BurstArgv(k)[4] >>
                 ELSE <<>>]_vars

\* the answer to "CD G !1 AB 4" has gone out
C28_PongSent ==
    /\ lastOp.op = "write_lines"
    /\ socket # <<>>
    /\ Last(socket) = <<"A", "B", " ", "Z", " ", "A", "B", " ", "4", " ", "0",
                        " ", "4", "\n">>

\* ------------------------------------------------------------------ C30
\* the entries of a user list, split at the commas
RECURSIVE ListEntries(_)
ListEntries(user_list) ==
    LET comma == FirstTrue([i \in 1..Len(user_list) |-> user_list[i] = ","])
    IN  IF comma = 0 THEN <<user_list>>
        ELSE <<SubSeq(user_list, 1, comma - 1)>>
               \o ListEntries(SubSeq(user_list, comma + 1, Len(user_list)))

\* the numnick of an entry, whether it carries a mode run, and the modes
\* its run asks for
EntryColon(entry)   == FirstTrue([i \in 1..Len(entry) |-> entry[i] = ":"])
EntryNumeric(entry) ==
    IF EntryColon(entry) = 0 THEN entry ELSE SubSeq(entry, 1, EntryColon(entry) - 1)
EntryRun(entry) == SubSeq(entry, EntryColon(entry) + 1, Len(entry))
RunModes(run) ==
    (IF Contains(run, "o") THEN MMODE_CHANOP ELSE {})
      \cup (IF Contains(run, "v") THEN MMODE_VOICE ELSE {})

\* the modes the n-th entry of a list has to end with: those of the most
\* recent run at or before it, none before the first run
RECURSIVE StickyModes(_, _)
StickyModes(entries, n) ==
    IF n = 0 THEN {}
    ELSE IF EntryColon(entries[n]) # 0 THEN RunModes(EntryRun(entries[n]))
    ELSE StickyModes(entries, n - 1)

\* the members the B of line k has to add to its channel, one for each
\* entry, in the order of the list
MembersAdded(k) ==
    LET entries == ListEntries(Last(BurstArgv(k)))
        before  == IF BurstChannel(k) = {} THEN <<>>
                   ELSE channels[SetMin(BurstChannel(k))].members
    IN  /\ ~panicked'
        /\ \E j \in 1..Len(channels') :
             /\ channels'[j].name = BurstArgv(k)[2]
             /\ Len(channels'[j].members) = Len(before) + Len(entries)
             /\ \A n \in 1..Len(entries) :
                  LET member == channels'[j].members[Len(before) + n]
                  IN  /\ member.user = FirstNumbered(EntryNumeric(entries[n]))
                      /\ member.modes = StickyModes(entries, n)

\* C30: in the user list of a B the member mode run is sticky: an entry
\* with ":<run>" gets exactly the modes of that run (o is CHANOP, v is
\* VOICE, an empty run is none), every following entry without a colon
\* gets the modes of the most recent run, and the entries before the first
\* colon get no modes from the list.
C30_MemberModesAreSticky ==
    [][\A k \in 1..Len(BurstLines) :
         /\ ReadsUser(k) /\ IsBurstCommand(k, <<"B">>)
         /\ \A n \in 1..Len(ListEntries(Last(BurstArgv(k)))) :
              UsersNumbered(EntryNumeric(ListEntries(Last(BurstArgv(k)))[n])) # {}
         => MembersAdded(k)]_vars

\* the same for the lists that do not end in a colon
C30_ListsNotEndingInColon ==
    [][\A k \in 1..Len(BurstLines) :
         /\ ReadsUser(k) /\ IsBurstCommand(k, <<"B">>)
         /\ Last(Last(BurstArgv(k))) # ":"
         /\ \A n \in 1..Len(ListEntries(Last(BurstArgv(k)))) :
              UsersNumbered(EntryNumeric(ListEntries(Last(BurstArgv(k)))[n])) # {}
         => MembersAdded(k)]_vars

\* ------------------------------------------------------------------ C29
\* a counter reading written as three base-64 digits, the highest first
ThreeDigits(counter) ==
    << CONVERT2Y[((counter \div 4096) % 64) + 1],
       CONVERT2Y[((counter \div 64) % 64) + 1],
       CONVERT2Y[(counter % 64) + 1] >>

\* C29: each numnick allocation returns the two characters of our server
\* numeric followed by the counter in three base-64 digits and then adds one
\* to the counter; the counter never goes down, and no two local bots have
\* the same numnick.
C29_NumnicksFromCounter ==
    /\ [][lastOp'.op = "add_local_bot" /\ nlines' = nlines + 1
          => /\ Len(users') = Len(users) + 1
             /\ Len(servers[MeIndex].numeric) = 2
             /\ heap'[Last(users')].numeric
                  = servers[MeIndex].numeric
                      \o ThreeDigits(servers[MeIndex].numeric_accum)
             /\ servers'[MeIndex].numeric_accum
                  = servers[MeIndex].numeric_accum + 1]_vars
    /\ [][servers'[MeIndex].numeric_accum >= servers[MeIndex].numeric_accum]_vars
    /\ [](\A i, j \in 1..Len(servers[MeIndex].users) :
            i # j => heap[servers[MeIndex].users[i]].numeric
                       # heap[servers[MeIndex].users[j]].numeric)

\* two bots have been given numnicks on either side of a carry
C29_CarryBetweenBots ==
    /\ lastOp.op = "add_local_bot"
    /\ Len(users) = 2
    /\ heap[users[1]].numeric = <<"A", "B", "A", "A", "]">>
    /\ heap[users[2]].numeric = <<"A", "B", "A", "B", "A">>

\* ---------------------------------------------------------------- C31
\* the argument-consuming letters of a mode word in order of appearance
RECURSIVE ArgLetters(_)
ArgLetters(word) ==
    IF word = <<>> THEN <<>>
    ELSE IF Head(word) \in {"k", "l", "A", "U"}
         THEN <<Head(word)>> \o ArgLetters(Tail(word))
         ELSE ArgLetters(Tail(word))

ModeWords(k) == split_string(ChannelModeStrings[k])
ModeLetters(k) == IF ModeWords(k) = <<>> THEN <<>> ELSE ArgLetters(ModeWords(k)[1])
ModeTokens(k) == IF ModeWords(k) = <<>> THEN <<>> ELSE Tail(ModeWords(k))

\* the pairs (letter, token) of string k by position
ModePairs(k) ==
    {i \in 1..Len(ModeLetters(k)) : i <= Len(ModeTokens(k))}

\* every token that is paired with 'l' is a number
LimitsAreNumbers(k) ==
    \A i \in ModePairs(k) :
        ModeLetters(k)[i] = "l" => ParseU64(ModeTokens(k)[i]).some

\* the field of the letter holds the token
FieldHolds(channel, letter, token) ==
    CASE letter = "k" -> channel.key = Some(token)
      [] letter = "l" -> ParseU64(token).some /\ channel.limit = ParseU64(token).v
      [] letter = "U" -> channel.upass = Some(token)
      [] letter = "A" -> channel.apass = Some(token)

SetsModeString(k) ==
    /\ lastOp'.op = "p10_set_channel_modes"
    /\ nlines' = nlines + 1
    /\ lastOp'.line = k

\* C31: when a mode string names several of the letters k, l, A, U, the i-th
\* token after the mode word becomes the argument of the i-th such letter in
\* order of appearance ("+kl secret 10": key secret, limit 10).
C31_TokensFollowLetters ==
    [][\A k \in 1..Len(ChannelModeStrings) :
         (SetsModeString(k) /\ LimitsAreNumbers(k))
         => /\ lastOp'.ok
            /\ \A i \in ModePairs(k) :
                 FieldHolds(channels'[1], ModeLetters(k)[i], ModeTokens(k)[i])]_vars

\* what the code does instead: the tokens go to the letters in the fixed
\* order l, k, U, A, whatever the order in the mode word.  It holds for the
\* strings whose letters appear in that order.
InFixedOrder(letters) ==
    \A i, j \in 1..Len(letters) :
        i < j => \E a, b \in 1..4 :
                   /\ a < b
                   /\ <<"l", "k", "U", "A">>[a] = letters[i]
                   /\ <<"l", "k", "U", "A">>[b] = letters[j]

C31_TokensFollowFixedOrder ==
    [][\A k \in 1..Len(ChannelModeStrings) :
         (SetsModeString(k) /\ LimitsAreNumbers(k) /\ InFixedOrder(ModeLetters(k)))
         => /\ lastOp'.ok
            /\ \A i \in ModePairs(k) :
                 FieldHolds(channels'[1], ModeLetters(k)[i], ModeTokens(k)[i])]_vars

\* ---------------------------------------------------------------- C32
\* string k has 'l' as its only argument letter and a first token that is
\* not a number
LimitIsNoNumber(k) ==
    /\ ModeLetters(k) = <<"l">>
    /\ ModeTokens(k) # <<>>
    /\ ~ParseU64(ModeTokens(k)[1]).some

\* C32: when the token for +l is not a base-10 number, the call completes
\* without a panic and leaves the channel with the LIMIT bit set and the
\* limit 0.
C32_BadLimitIsZero ==
    [][\A k \in 1..Len(ChannelModeStrings) :
         (SetsModeString(k) /\ LimitIsNoNumber(k))
         => /\ lastOp'.ok
            /\ ~panicked'
            /\ CMODE_LIMIT \subseteq channels'[1].modes
            /\ channels'[1].limit = 0]_vars

\* a limit that is a number is stored, with the LIMIT bit
C32_NumericLimitIsStored ==
    [][\A k \in 1..Len(ChannelModeStrings) :
         (SetsModeString(k) /\ ModeLetters(k) = <<"l">>
            /\ ModeTokens(k) # <<>> /\ ParseU64(ModeTokens(k)[1]).some)
         => /\ lastOp'.ok
            /\ CMODE_LIMIT \subseteq channels'[1].modes
            /\ channels'[1].limit = ParseU64(ModeTokens(k)[1]).v]_vars

\* ---------------------------------------------------------------- C33
\* the table of the specification: letter i has bit i-1
C33_Table ==
    <<"p", "s", "m", "t", "i", "n", "k", "b", "l", "D", "r", "c", "C", "z",
      "A", "U">>

\* the bits the table gives a letter: one bit, or none for an unknown letter
TableBit(letter) == {i - 1 : i \in {j \in 1..Len(C33_Table) : C33_Table[j] = letter}}

AddsModeLetter(k) ==
    /\ lastOp'.op = "p10_add_channel_mode"
    /\ nlines' = nlines + 1
    /\ lastOp'.line = k

\* C33: one channel mode letter changes only the bit the table gives it:
\* adding sets the bit, removing clears it, every other bit keeps its value,
\* and an unknown letter changes nothing.
C33_LetterTouchesItsBit ==
    [][\A k \in 1..Len(ChannelModeLetters) :
         AddsModeLetter(k)
         => channels'[1] =
              [channels[1] EXCEPT !.modes =
                 IF lastOp'.ok THEN @ \cup TableBit(ChannelModeLetters[k])
                 ELSE @ \ TableBit(ChannelModeLetters[k])]]_vars

\* adding alone is as the specification says
C33_AddingTouchesItsBit ==
    [][\A k \in 1..Len(ChannelModeLetters) :
         (AddsModeLetter(k) /\ lastOp'.ok)
         => channels'[1] =
              [channels[1] EXCEPT !.modes = @ \cup TableBit(ChannelModeLetters[k])]]_vars

\* ---------------------------------------------------------------- C34
\* the burst generator has run on channels[1]
Bursted == pc = "burst" /\ lastOp.op = "p10_burst_our_channel"

\* "<me> B <name> <created> "
BurstPrefix ==
    Config.numeric \o <<" ", "B", " ">> \o channels[1].name \o <<" ">>
        \o FormatInt(channels[1].created) \o <<" ">>

\* the positions of a line where a numnick of server CD begins
NumnickPositions(line) ==
    {j \in 1..(Len(line) - 4) : line[j] = "C" /\ line[j + 1] = "D"}

\* the numnicks of a line from left to right
ListedNumnicks(line) ==
    [k \in 1..Cardinality(NumnickPositions(line)) |->
        SubSeq(line,
               CHOOSE j \in NumnickPositions(line) :
                   Cardinality({h \in NumnickPositions(line) : h < j}) = k - 1,
               4 + CHOOSE j \in NumnickPositions(line) :
                   Cardinality({h \in NumnickPositions(line) : h < j}) = k - 1)]

\* the numnicks of the members of channels[1] in the order of the list
MemberNumnicks ==
    [i \in 1..Len(channels[1].members) |-> heap[channels[1].members[i].user].numeric]

\* line holds ban behind a ":%"
InBanChunk(line, ban) ==
    \E j \in 1..(Len(line) - 1) :
        /\ line[j] = ":" /\ line[j + 1] = "%"
        /\ \E h \in (j + 2)..(Len(line) - Len(ban) + 1) :
               SubSeq(line, h, h + Len(ban) - 1) = ban

LinesAreBurstLines ==
    \A i \in 1..Len(write_buffer) :
        /\ IsPrefix(BurstPrefix, write_buffer[i])
        /\ Len(write_buffer[i]) <= 500

MembersInOrder ==
    Flatten([i \in 1..Len(write_buffer) |-> ListedNumnicks(write_buffer[i])])
        = MemberNumnicks

\* C34: every line the burst generator appends for a channel starts with
\* "<me> B <name> <created> " and has at most 500 bytes, whatever the number
\* of members and bans; the members are listed in the order of the member
\* list; every ban is listed, in a chunk introduced by ":%", and the bans do
\* not displace the members.
C34_BurstLines ==
    Bursted =>
        /\ LinesAreBurstLines
        /\ MembersInOrder
        /\ \A b \in 1..Len(channels[1].bans) :
               \E i \in 1..Len(write_buffer) :
                   InBanChunk(write_buffer[i], channels[1].bans[b])

\* for a channel without bans the lines are as the specification says
C34_BurstLinesWithoutBans ==
    (Bursted /\ channels[1].bans = <<>>) => (LinesAreBurstLines /\ MembersInOrder)

\* a burst of more than one line was generated
C34_SeveralLines ==
    Bursted /\ channels[1].bans = <<>> /\ Len(write_buffer) > 2

\* ---------------------------------------------------------------- C35
\* every line of the burst has been handed to the reader
BurstWasRead == lastOp.op = "process" /\ (panicked \/ nlines = Len(write_buffer))

BurstMemberFlags(member) == member.modes \cap (MMODE_CHANOP \cup MMODE_VOICE)

\* the channel of the reader is the channel of the writer
SameBurstChannel(a, b) ==
    /\ a.name = b.name
    /\ a.created = b.created
    /\ a.modes = b.modes
    /\ a.limit = b.limit
    /\ a.key = b.key
    /\ a.bans = b.bans
    /\ Len(a.members) = Len(b.members)
    /\ \A i \in 1..Len(a.members) :
           /\ i <= Len(b.members)
           /\ a.members[i].user = b.members[i].user
           /\ BurstMemberFlags(a.members[i]) = BurstMemberFlags(b.members[i])

\* C35: the lines p10_burst_our_channel emits for a channel, read by the B
\* handler of a store that knows the same users, give a channel with the
\* same name, creation time, mode bits, limit, key and ban list and the
\* same members with the same CHANOP and VOICE flags.
C35_RoundTrip ==
    BurstWasRead =>
        /\ ~panicked
        /\ Len(channels) = 2
        /\ SameBurstChannel(channels[1], channels[2])

\* the round trip succeeds for a channel without bans and without a user
\* password, unless its last member has no flags and the member before it
\* has some
LastRunIsNotEmpty ==
    LET members == channels[1].members
        n == Len(members)
    IN  \/ n < 2
        \/ BurstMemberFlags(members[n]) # {}
        \/ BurstMemberFlags(members[n - 1]) = {}

C35_RoundTripOfPlainLists ==
    (BurstWasRead /\ channels[1].bans = <<>> /\ ~channels[1].upass.some /\ LastRunIsNotEmpty)
        => /\ ~panicked
           /\ Len(channels) = 2
           /\ SameBurstChannel(channels[1], channels[2])

\* ------------------------------------------------------------------ C36
\* the tokens of line k of LinkLines, as process() splits them
LinkArgv(k) == split_line(trim_bytes_right(LinkLines[k] \o CRLF), TRUE, 200)

\* the step reads line k of LinkLines
ReadsLink(k) ==
    /\ pc = "read"
    /\ nlines' = nlines + 1
    /\ lastOp'.op = "process"
    /\ lastOp'.line = k

ServerWords == {<<"S", "E", "R", "V", "E", "R">>, <<"S">>}

\* line k is a SERVER line with at least n tokens from the command on, read
\* while no uplink is known
FirstServerLine(k, n) ==
    /\ uplink = 0
    /\ LinkArgv(k)[1] = <<"S", "E", "R", "V", "E", "R">>
    /\ Len(LinkArgv(k)) >= n

\* line k is a SERVER/S line with an origin and at least n tokens from the
\* command on, read while the uplink is known
LaterServerLine(k, n) ==
    /\ uplink # 0
    /\ Len(LinkArgv(k)) >= n + 1
    /\ LinkArgv(k)[2] \in ServerWords

\* the N line of a local user at time t
LocalUserLine(user, t) ==
    Config.numeric \o <<" ", "N", " ">> \o user.nick \o <<" ", "1", " ">>
      \o FormatInt(t) \o <<" ">> \o user.ident \o <<" ">> \o user.host
      \o <<" ", "+", "i", "o", "k", " ", "_", " ">> \o user.numeric
      \o <<" ", ":">> \o user.gecos

\* the step made the server of line k the uplink and queued the local users
BecomesUplink(k) ==
    /\ ~panicked'
    /\ lastOp'.ok
    /\ Len(servers') = Len(servers) + 1
    /\ SubSeq(servers', 1, Len(servers)) = servers
    /\ uplink' = Len(servers')
    /\ servers'[Len(servers')].numeric = SubSeq(LinkArgv(k)[7], 1, 2)
    /\ servers'[Len(servers')].hostname = LinkArgv(k)[2]
    /\ write_buffer' = write_buffer \o
         [i \in 1..Len(servers[MeIndex].users) |->
            LocalUserLine(heap[servers[MeIndex].users[i]], now')]

\* the step added the server of line k (tokens shifted by the origin) and
\* nothing else
OnlyAddsServer(k) ==
    /\ ~panicked'
    /\ lastOp'.ok
    /\ Len(servers') = Len(servers) + 1
    /\ SubSeq(servers', 1, Len(servers)) = servers
    /\ servers'[Len(servers')].numeric = SubSeq(LinkArgv(k)[8], 1, 2)
    /\ write_buffer' = write_buffer
    /\ uplink' = uplink

ServerLineSteps(n) ==
    \A k \in 1..Len(LinkLines) :
        ReadsLink(k) =>
            /\ FirstServerLine(k, n) => BecomesUplink(k)
            /\ LaterServerLine(k, n) => OnlyAddsServer(k)

\* C36: the first SERVER line with at least 8 arguments, read while no
\* uplink is known, becomes the uplink, is listed with the first two bytes
\* of argv[6] as its numeric and queues one N line per local user of me, in
\* the order the users were added; every later SERVER/S only adds a server:
\* it queues nothing and leaves the uplink alone.
C36_ServerLines == [][ServerLineSteps(8)]_vars

\* the same for SERVER lines that carry their description (argv[8])
C36_ServerLinesWithDescription == [][ServerLineSteps(9)]_vars

\* the uplink was accepted with two local users waiting
C36_TwoUsersBursted ==
    /\ uplink # 0
    /\ Len(servers[MeIndex].users) = 2
    /\ lastOp.op = "process" /\ lastOp.ok /\ nlines = 1
    /\ Len(write_buffer) = 2

\* a server was added behind a known uplink
C36_LaterServerAdded ==
    /\ uplink # 0
    /\ Len(servers) > uplink

\* ------------------------------------------------------------------ C37
\* the servers one reaches from the servers of S over at most n more links
\* of owned children
RECURSIVE ReachableServers(_, _)
ReachableServers(S, n) ==
    IF n = 0 THEN S
    ELSE ReachableServers(
             S \cup UNION { {servers[i].children[c] : c \in 1..Len(servers[i].children)} :
                            i \in S }, n - 1)

\* the servers the peer has introduced behind the directly-connected one
RemoteServers == (1..Len(servers)) \ {MeIndex, uplink}

\* C37: after any sequence of SERVER/S commands every server other than the
\* directly-connected root has its uplink set, and every server is reachable
\* from the root over owned children.
C37_ServerTree ==
    uplink # 0 =>
        \A i \in RemoteServers :
            /\ servers[i].uplink # 0
            /\ i \in ReachableServers({uplink}, Len(servers))

\* what the store holds instead: no listed server has an uplink or a child
C37_ServersStayUnlinked ==
    \A i \in 1..Len(servers) :
        servers[i].uplink = 0 /\ servers[i].children = <<>>

\* two servers were introduced behind the uplink
C37_TwoRemoteServers ==
    /\ uplink # 0
    /\ Cardinality(RemoteServers) = 2

\* ------------------------------------------------------------------ C38
\* what the chanmodes of the declarations of BotChannels declare
DeclaredModes ==
    << [modes |-> CMODE_NOPRIVMSGS, limit |-> 0, key |-> None],
       [modes |-> CMODE_TOPICLIMIT \cup CMODE_NOPRIVMSGS, limit |-> 0, key |-> None],
       [modes |-> CMODE_LIMIT, limit |-> 5, key |-> None],
       [modes |-> CMODE_KEY \cup CMODE_LIMIT, limit |-> 10, key |-> Some(<<"s">>)] >>

\* the places in a channel list of the channels that go by a name
NamedChannels(list, name) ==
    {c \in 1..Len(list) :
        u8_slice_to_lower(list[c].name) = u8_slice_to_lower(name)}

\* the step added a bot that declares the channels ds
AddsChannelBot(ds) ==
    /\ pc = "load"
    /\ nlines' = nlines + 1
    /\ lastOp'.op = "add_local_bot"
    /\ lastOp'.ds = ds

\* exactly one user, owned by me, with a numnick nobody held
OneLocalUserMore ==
    /\ Len(users') = Len(users) + 1
    /\ SubSeq(users', 1, Len(users)) = users
    /\ servers'[MeIndex].users = Append(servers[MeIndex].users, Last(users'))
    /\ heap'[Last(users')].uplink = MeIndex
    /\ SubSeq(heap'[Last(users')].numeric, 1, 2) = Config.numeric
    /\ \A i \in 1..Len(users) :
          heap[users[i]].numeric # heap'[Last(users')].numeric

\* declaration i of ds: one channel goes by its name, the new user is a
\* member of it; a channel that existed is the one it was, with the members
\* it had; a channel that did not exist has the modes of the first
\* declaration of ds that names it
ChannelDeclared(ds, i) ==
    LET d      == BotChannels[ds[i]]
        before == NamedChannels(channels, d.name)
        after  == NamedChannels(channels', d.name)
        first  == CHOOSE j \in 1..i :
                    /\ u8_slice_to_lower(BotChannels[ds[j]].name) = u8_slice_to_lower(d.name)
                    /\ \A h \in 1..(j - 1) :
                          u8_slice_to_lower(BotChannels[ds[h]].name) # u8_slice_to_lower(d.name)
    IN  /\ Cardinality(after) = 1
        /\ \A c \in after :
              /\ \E m \in 1..Len(channels'[c].members) :
                    channels'[c].members[m].user = Last(users')
              /\ before # {} =>
                    /\ c \in before
                    /\ channels'[c].modes = channels[c].modes
                    /\ channels'[c].created = channels[c].created
                    /\ Len(channels'[c].members) > Len(channels[c].members)
                    /\ SubSeq(channels'[c].members, 1, Len(channels[c].members))
                          = channels[c].members
              /\ before = {} =>
                    /\ c > Len(channels)
                    /\ channels'[c].name = BotChannels[ds[first]].name
                    /\ channels'[c].modes = DeclaredModes[ds[first]].modes
                    /\ channels'[c].limit = DeclaredModes[ds[first]].limit
                    /\ channels'[c].key = DeclaredModes[ds[first]].key

BotAdded(ds) ==
    /\ ~panicked'
    /\ OneLocalUserMore
    /\ Len(channels') >= Len(channels)
    /\ \A i \in 1..Len(ds) : ChannelDeclared(ds, i)

\* C38: adding a local bot adds exactly one user, owned by me, to the global
\* list and to me's list, with a numnick nobody held, and makes it a member
\* of every channel it declares: a channel that does not exist is created
\* once with the declared modes, one that exists is reused, so two bots that
\* declare the same channel are two members of one channel.
C38_BotJoinsDeclaredChannels ==
    [][\A ds \in BotChannelLists : AddsChannelBot(ds) => BotAdded(ds)]_vars

\* the declarations with a lower-case name and at most one mode argument
PlainBotChannels == {1, 3}

\* the same for bots that declare PlainBotChannels only
C38_BotJoinsPlainChannels ==
    [][\A ds \in BotChannelLists :
          /\ AddsChannelBot(ds)
          /\ \A i \in 1..Len(ds) : ds[i] \in PlainBotChannels
          /\ \A c \in 1..Len(channels) : channels[c].name = u8_slice_to_lower(channels[c].name)
          => BotAdded(ds)]_vars

\* two bots have declared #c and are the two members of the one channel
C38_TwoBotsOneChannel ==
    /\ Len(users) = 2
    /\ Len(channels) = 1
    /\ channels[1].name = <<"#", "c">>
    /\ Len(channels[1].members) = 2
    /\ channels[1].members[1].user # channels[1].members[2].user

\* two bots have declared #C and sit in two channels of that name
C38_TwoChannelsOfOneName ==
    /\ Len(channels) = 2
    /\ channels[1].name = <<"#", "C">>
    /\ channels[2].name = <<"#", "C">>

\* ------------------------------------------------------------------ C39
\* every line handed to the uplink so far, written or still queued
OutboundLines ==
    [i \in 1..Len(socket) |-> trim_bytes_right(socket[i])] \o write_buffer

OurEB == Config.numeric \o <<" ", "E", "B">>
OurEA == Config.numeric \o <<" ", "E", "A">>

\* the channels with a member that is a user of me
LocalChannels ==
    {c \in 1..Len(channels) :
        \E m \in 1..Len(channels[c].members) :
            heap[channels[c].members[m].user].uplink = MeIndex}

\* line is our N line for a user; line is our B line for a channel
IsUserLineOf(line, user) ==
    IsPrefix(Config.numeric \o <<" ", "N", " ">> \o user.nick \o <<" ">>, line)
IsBurstLineOf(line, channel) ==
    IsPrefix(Config.numeric \o <<" ", "B", " ">> \o channel.name \o <<" ">>, line)

\* the outbound lines begin with the handshake
HandshakeFirst ==
    OutboundLines # <<>> =>
        /\ Len(OutboundLines) >= 2
        /\ IsPrefix(<<"P", "A", "S", "S", " ">>, OutboundLines[1])
        /\ IsPrefix(<<"S", "E", "R", "V", "E", "R", " ">>, OutboundLines[2])

\* before our EB at place e: the N line of every local user, after the
\* handshake
UsersBefore(e) ==
    \A i \in 1..Len(servers[MeIndex].users) :
        \E n \in 3..(e - 1) :
            IsUserLineOf(OutboundLines[n], heap[servers[MeIndex].users[i]])

\* before our EB at place e: a B line for every locally-owned channel
ChannelsBefore(e) ==
    \A c \in LocalChannels :
        \E b \in 3..(e - 1) : IsBurstLineOf(OutboundLines[b], channels[c])

\* C39: in the outbound order the handshake comes first, then the N line of
\* every local user, then a B burst for every locally-owned channel, and
\* only then our EB and EA: when our EB is queued no locally-owned channel
\* is still waiting for its burst.
C39_BurstBeforeEB ==
    /\ HandshakeFirst
    /\ \A e \in 1..Len(OutboundLines) :
          OutboundLines[e] = OurEB =>
              /\ UsersBefore(e)
              /\ ChannelsBefore(e)
              /\ e < Len(OutboundLines) /\ OutboundLines[e + 1] = OurEA

\* the same without the channels: handshake, local users, then EB and EA
C39_UsersBeforeEB ==
    /\ HandshakeFirst
    /\ \A e \in 1..Len(OutboundLines) :
          OutboundLines[e] = OurEB =>
              /\ UsersBefore(e)
              /\ e < Len(OutboundLines) /\ OutboundLines[e + 1] = OurEA

\* our EB is out, and before it the burst of the one channel we own
C39_BurstThenEB ==
    /\ LocalChannels # {}
    /\ \E e \in 1..Len(OutboundLines) :
          OutboundLines[e] = OurEB /\ ChannelsBefore(e)

\* our EB is out while a channel of ours was never bursted
C39_EBWithoutBurst ==
    /\ LocalChannels # {}
    /\ \E e \in 1..Len(OutboundLines) : OutboundLines[e] = OurEB
    /\ \A b \in 1..Len(OutboundLines), c \in LocalChannels :
          ~IsBurstLineOf(OutboundLines[b], channels[c])

\* ------------------------------------------------------------------ C40
\* the places of a line where a word begins, and where that word ends
WordStarts(s) ==
    {i \in 1..Len(s) : s[i] # " " /\ (i = 1 \/ s[i - 1] = " ")}
WordEnd(s, i) ==
    CHOOSE j \in i..Len(s) :
        /\ \A h \in i..j : s[h] # " "
        /\ j = Len(s) \/ s[j + 1] = " "

\* the first word that begins with a colon and is not the first word of the
\* line (0: none)
TrailingColon(s) ==
    LET colons == {p \in WordStarts(s) :
                      s[p] = ":" /\ \E q \in WordStarts(s) : q < p}
    IN  IF colons = {} THEN 0
        ELSE CHOOSE p \in colons : \A q \in colons : p <= q

\* the tokens of line s under the limit size: the words before the trailing
\* colon, at most size of them, and then, if the limit is not reached and
\* bytes follow the colon, everything after the colon
TokensOf(s, size) ==
    LET colon  == TrailingColon(s)
        plain  == IF colon = 0 THEN WordStarts(s)
                  ELSE {i \in WordStarts(s) : i < colon}
        n      == IF Cardinality(plain) < size THEN Cardinality(plain) ELSE size
        start(k) == CHOOSE i \in plain : Cardinality({j \in plain : j < i}) = k - 1
        words  == [k \in 1..n |-> SubSeq(s, start(k), WordEnd(s, start(k)))]
    IN  IF colon # 0 /\ Cardinality(plain) < size /\ colon < Len(s)
        THEN Append(words, SubSeq(s, colon + 1, Len(s)))
        ELSE words

BlankLine(s) == \A i \in 1..Len(s) : s[i] = " "

\* what split_line has returned for op.line is right
TokensRight(op) ==
    /\ op.argc = Len(op.argv)
    /\ op.argc <= op.argv_size
    /\ op.argc <= MaxArgc
    /\ \A i \in 1..Len(op.argv) : op.argv[i] # <<>>
    /\ BlankLine(op.line) => op.argc = 0
    /\ op.argv = TokensOf(op.line, op.argv_size)
    /\ \A p \in WordStarts(op.line) :
          /\ (\A q \in WordStarts(op.line) : p <= q)
          /\ op.line[p] = ":"
          => /\ op.argc > 0
             /\ op.argv[1] = SubSeq(op.line, p, WordEnd(op.line, p))

\* process() has changed nothing but the clock
OnlyTheClockMoved ==
    /\ ~panicked'
    /\ lastOp'.ok
    /\ now' = clock'
    /\ <<state', uplink', channels', unbursted_channels', servers', users',
         plugins', events', write_buffer', heap', socket'>>
         = <<state, uplink, channels, unbursted_channels, servers, users,
             plugins, events, write_buffer, heap, socket>>

\* C40: the tokenizer returns argc equal to the number of tokens, never more
\* than the limit (200 in process()) and never an empty token; an empty or
\* all-space line has no token, and process() then changes nothing but the
\* clock; a word that begins with a colon after at least one token makes
\* everything after the colon, spaces included, the last token; a colon at
\* the head of the first word stays part of that word.
C40_Tokenizer ==
    [][/\ lastOp'.op = "split_line" => TokensRight(lastOp')
       /\ (lastOp'.op = "process" /\ lastOp.op \in {"read_until", "split_line"}
             /\ BlankLine(lastOp'.line))
          => OnlyTheClockMoved]_vars

\* a trailing token that holds a space, after a first word that keeps its
\* colon, under the limit of process()
C40_TrailingTokenWithSpace ==
    /\ lastOp.op = "split_line"
    /\ lastOp.argv_size = MaxArgc
    /\ lastOp.argc = 2
    /\ lastOp.argv[1] = <<":">>
    /\ lastOp.argv[2] = <<" ", "a">>

\* the limit has cut the tokens short
C40_LimitReached ==
    /\ lastOp.op = "split_line"
    /\ lastOp.argc = lastOp.argv_size
    /\ Cardinality(WordStarts(lastOp.line)) > lastOp.argv_size

\* process() has read an all-space line
C40_BlankLineProcessed ==
    /\ lastOp.op = "process"
    /\ lastOp.line # <<>>
    /\ BlankLine(lastOp.line)
    /\ now = 2

====
